---- MODULE Spec2Model ----
(***************************************************************************)
(* A model of the grayscale image toolkit: the Image class (an array of    *)
(* row buffers reached through a row table), its PGM file I/O, its         *)
(* arithmetic and its region extraction.                                   *)
(*                                                                         *)
(* Memory is modelled at the level of single new[] / delete[] calls: every *)
(* row table and every row buffer is a block of the heap, so ownership,    *)
(* leaks and invalid frees are visible in the state.                       *)
(***************************************************************************)
EXTENDS Integers, Sequences, FiniteSets, TLC

(***************************************************************************)
(* Bounds of the model.                                                    *)
(***************************************************************************)
MaxW == 2          \* largest image width an operation is tried on
MaxH == 2          \* largest image height an operation is tried on
MemW == 1          \* largest width the client of the life cycle asks for
MemH == 2          \* largest height the client of the life cycle asks for
NumPat == 2        \* distinct contents of the images an operation is tried on
NumFill == 1       \* distinct contents a block of fresh memory may hold
Edge == 16         \* values tried at each end of the range of unsigned char
MemBlocks == 7     \* blocks the client of the life cycle holds at most

\* Blocks the heap can hold at once: two images, a local and a temporary.
MaxAddr == 4 * (MaxH + 1)

Img == {1, 2}         \* the Image objects the client holds
Tmp == 0              \* the temporary Image an expression yields
Loc == 3              \* the local Image of the function that is running
Obj == Img \cup {Tmp, Loc}
Addr == 1..MaxAddr
NULL == 0
WILD == MaxAddr + 1   \* a pointer value that is no block of the heap
PtrVals == {NULL, WILD} \cup Addr
Byte == 0..255

Min(a, b) == IF a < b THEN a ELSE b
Max(a, b) == IF a > b THEN a ELSE b

\* F applied to the value of v, which is computed once.
Then(v, F(_)) == CHOOSE r \in {F(x) : x \in {v}} : TRUE

(***************************************************************************)
(* unsigned int, 32 bits wide, kept as two 16-bit halves.                  *)
(***************************************************************************)
Half == 65536
U32Of(n) == [hi |-> n \div Half, lo |-> n % Half]
U32Max == [hi |-> Half - 1, lo |-> Half - 1]
\* x + y in unsigned int arithmetic: the carry out of bit 31 is dropped.
U32Add(a, b) ==
  LET s == a.lo + b.lo
  IN  [hi |-> (a.hi + b.hi + s \div Half) % Half, lo |-> s % Half]
U32Gt(a, b) == a.hi > b.hi \/ (a.hi = b.hi /\ a.lo > b.lo)
U32Small(a) == a.hi = 0
U32Val(a) == a.lo     \* the value of a, when U32Small(a)
\* x + y > n for the mathematical integers x, y and a small n.
MathSumGt(a, b, n) ==
  LET s == a.lo + b.lo
      h == a.hi + b.hi + s \div Half
  IN  h > 0 \/ s % Half > n

(***************************************************************************)
(* The contents that memory nobody has written yet may hold, and the       *)
(* contents of the images an operation is tried on: pattern k at column x, *)
(* row y (both from 0).  All pixels of one pattern differ; pattern 1       *)
(* starts with a line feed (10) and holds small values, pattern 2 holds    *)
(* values from 200 on.                                                     *)
(***************************************************************************)
Pat == 1..NumPat
Fill == 1..NumFill
PatternPx(k, x, y) == (190 * (k - 1) + 16 * y + x + 10) % 256
PatternFill(k) == [r \in 1..(MaxH + 2) |-> [c \in 1..(MaxW + 2) |-> PatternPx(k, c - 1, r - 1)]]

VARIABLES
  img,     \* the Image objects: m_data, m_width, m_height, m_isGrayscale
  heap,    \* the blocks of the free store
  fs,      \* the files, by path
  bad,     \* what went wrong in the free store or with a memory access
  last,    \* the call that has just returned: arguments and result
  ui       \* the menu loop of main: imageLoaded, outputPath

vars == <<img, heap, fs, bad, last, ui>>

(***************************************************************************)
(* The free store.  A block is a row table (cells: the row pointers), a    *)
(* row buffer (cells: the pixels) or free.  new[] takes the lowest free    *)
(* block.                                                                  *)
(***************************************************************************)
FreeBlock == [kind |-> "free", cells |-> <<>>]
NoObject == [alive |-> FALSE, m_data |-> NULL, m_width |-> 0, m_height |-> 0,
             m_isGrayscale |-> TRUE]

FreeAddrs(hp) == {a \in Addr : hp[a].kind = "free"}
\* n more blocks can be had without holding more than lim.
CanAlloc(hp, n, lim) == Cardinality(Addr \ FreeAddrs(hp)) + n <= lim
\* The free blocks, lowest first.
FreeList(hp) ==
  Then(FreeAddrs(hp), LAMBDA fr :
    [n \in 1..Cardinality(fr) |->
       CHOOSE a \in fr : Cardinality({b \in fr : b < a}) = n - 1])

\* The machine state an operation works on.
Machine(im, hp) ==
  [img |-> im, heap |-> hp, bad |-> {}, freed |-> <<>>, reads |-> 0, ret |-> "void",
   writes |-> {}, visits |-> <<>>]

\* delete[] p
DeleteArray(m, p) ==
  IF p = NULL THEN m
  ELSE IF p \in Addr /\ m.heap[p].kind # "free"
       THEN [m EXCEPT !.heap[p] = FreeBlock, !.freed = Append(@, p)]
       ELSE [m EXCEPT !.bad = @ \cup {"invalid_free"}, !.freed = Append(@, p)]

\* Image::allocateMemory: a row table of m_height pointers, then one buffer of
\* m_width bytes per row; the bytes hold whatever the memory held (fill).
allocateMemory(m, i, fill) ==
  Then(FreeList(m.heap), LAMBDA fl :
    LET h == m.img[i].m_height
        w == m.img[i].m_width
        rows == {fl[r + 1] : r \in 1..h}
    IN  [m EXCEPT
          !.img[i].m_data = fl[1],
          !.heap = [a \in Addr |->
                      IF a = fl[1] THEN [kind |-> "tab", cells |-> [r \in 1..h |-> fl[r + 1]]]
                      ELSE IF a \in rows
                           THEN [kind |-> "row",
                                 cells |-> [c \in 1..w |->
                                             fill[CHOOSE r \in 1..h : a = fl[r + 1]][c]]]
                           ELSE m.heap[a]]])

\* The rows the table of image i really has.
TableLen(m, i) ==
  LET t == m.img[i].m_data
  IN  IF t \in Addr /\ m.heap[t].kind = "tab" THEN Len(m.heap[t].cells) ELSE 0

\* m_data[r], r from 0: the row pointer, or what lies behind the table (g).
RowPtr(m, i, r, g) ==
  IF r < TableLen(m, i) THEN m.heap[m.img[i].m_data].cells[r + 1]
  ELSE g[r - TableLen(m, i) + 1]

\* delete[] m_data[r]: a pointer read from behind the table was never returned
\* by new[].
DeleteRow(m, i, r, g) ==
  Then(RowPtr(m, i, r, g), LAMBDA p :
    IF r < TableLen(m, i) \/ p = NULL THEN DeleteArray(m, p)
    ELSE Then(DeleteArray(m, p), LAMBDA m1 : [m1 EXCEPT !.bad = @ \cup {"wild_free"}]))

\* for (i = 0; i < m_height; ++i) delete[] m_data[i], from row r on.
RECURSIVE DeleteRows(_, _, _, _)
DeleteRows(m, i, r, g) ==
  IF r >= m.img[i].m_height THEN m
  ELSE Then(DeleteRow(m, i, r, g), LAMBDA m1 : DeleteRows(m1, i, r + 1, g))

\* Image::deallocateMemory: m_height row buffers, then the table.
LeakRows(m, i, g) ==
  IF m.img[i].m_data = NULL THEN m
  ELSE Then(DeleteArray(m, m.img[i].m_data), LAMBDA m2 : [m2 EXCEPT !.img[i].m_data = NULL])
deallocateMemory(m, i, g) ==
  IF m.img[i].m_data = NULL THEN m
  ELSE Then(DeleteRows(m, i, 0, g), LAMBDA m1 :
       Then(DeleteArray(m1, m.img[i].m_data), LAMBDA m2 :
         [m2 EXCEPT !.img[i].m_data = NULL]))

\* The pointers deallocateMemory of image i would read from behind its table:
\* each may be anything.
Garbage(m, i) ==
  IF m.img[i].m_data = NULL THEN {<<>>}
  ELSE [1..Max(0, m.img[i].m_height - TableLen(m, i)) -> PtrVals]
NoGarbage == <<>>

\* m_data[r][c], r and c from 0, of an image whose buffer is intact.
PixelOf(im, hp, i, r, c) == hp[hp[im[i].m_data].cells[r + 1]].cells[c + 1]
\* All pixels: row r (from 1), column c (from 1).
Pixels(im, hp, i) ==
  [r \in 1..im[i].m_height |-> [c \in 1..im[i].m_width |-> PixelOf(im, hp, i, r - 1, c - 1)]]

\* The loops that store px[r][c] into m_data[r-1][c-1] for every row and column.
StorePixels(m, i, px) ==
  Then(m.heap[m.img[i].m_data].cells, LAMBDA t :
    [m EXCEPT !.heap = [a \in Addr |->
                IF \E r \in 1..Len(t) : t[r] = a
                THEN [kind |-> "row", cells |-> px[CHOOSE r \in 1..Len(t) : t[r] = a]]
                ELSE m.heap[a]]])

\* Image::copyFrom
ShallowCopyFrom(m, i, j) ==
  [m EXCEPT !.img[i].m_width = m.img[j].m_width,
            !.img[i].m_height = m.img[j].m_height,
            !.img[i].m_data = m.img[j].m_data]
copyFrom(m, i, j) ==
  Then(Pixels(m.img, m.heap, j), LAMBDA px :
  Then([m EXCEPT !.img[i].m_width = m.img[j].m_width,
                 !.img[i].m_height = m.img[j].m_height,
                 !.img[i].m_isGrayscale = m.img[j].m_isGrayscale], LAMBDA m1 :
  Then(allocateMemory(m1, i, PatternFill(1)), LAMBDA m2 :
    StorePixels(m2, i, px))))

(***************************************************************************)
(* The parameters of a filter: alpha is (n / d) * 2^e, gamma a natural     *)
(* number, the kernel a matrix of kh rows and kw columns of integers, the   *)
(* scaling function the division by sd.                                    *)
(***************************************************************************)
NoFilter ==
  [kind |-> "none", alpha |-> [n |-> 1, d |-> 1, e |-> 0], beta |-> 0, gamma |-> 1,
   kernel |-> <<>>, kw |-> 0, kh |-> 0, sd |-> 1]

\* Rectangle(const Point& tl, const Point& br): two corners <<x, y>>.
Rect(tl, br) == [topLeft |-> tl, bottomRight |-> br]

\* main before its loop: no image loaded, no output directory.  okLoads
\* counts the loads that succeeded, steps the choices made.
NoUI == [imageLoaded |-> FALSE, outputPath |-> "", exited |-> FALSE, okLoads |-> 0, steps |-> 0]

(***************************************************************************)
(* The call that has just returned.                                        *)
(***************************************************************************)
NoCall ==
  [op |-> "none", this |-> Tmp, other |-> Tmp,
   x |-> U32Of(0), y |-> U32Of(0), w |-> U32Of(0), h |-> U32Of(0),
   c |-> 0, path |-> 0, ret |-> "void", freed |-> <<>>, reads |-> 0,
   writes |-> {}, p1 |-> <<0, 0>>, p2 |-> <<0, 0>>, filter |-> NoFilter, ub |-> 0,
   visits |-> <<>>, ra |-> Rect(<<0, 0>>, <<0, 0>>), rb |-> Rect(<<0, 0>>, <<0, 0>>),
   rr |-> Rect(<<0, 0>>, <<0, 0>>), sub |-> 0, ops |-> <<>>]
Call(op, this, other) == [NoCall EXCEPT !.op = op, !.this = this, !.other = other]
\* The same, with the blocks the operation handed to delete[].
WithFreed(call, m) == [call EXCEPT !.freed = m.freed]
\* The same, with the cells <<row, column>> the operation wrote through at.
WithWrites(call, m) == [call EXCEPT !.writes = m.writes]
\* The same, with the points <<x, y>> a drawing loop visited, in order.
WithVisits(call, m) == [call EXCEPT !.visits = m.visits]

\* The operation ends in machine state m0; call describes it.
CommitState(m0, call) ==
  \E m \in {m0} :
    /\ img' = m.img
    /\ heap' = m.heap
    /\ bad' = bad \cup m.bad
    /\ last' = [call EXCEPT !.reads = m.reads, !.ret = m.ret]
\* The same for a call made outside the menu loop.
Commit(m0, call) == CommitState(m0, call) /\ ui' = ui

Start == Machine(img, heap)
Running == bad = {}

(***************************************************************************)
(* Construction, copy, assignment, release, destruction, pixel access.     *)
(***************************************************************************)
\* Image::Image() on object i.
construct(m, i) == [m EXCEPT !.img[i] = [NoObject EXCEPT !.alive = TRUE]]

Construct(i) ==
  /\ Running /\ ~img[i].alive
  /\ Commit(construct(Start, i), Call("Image", Tmp, Tmp))
  /\ UNCHANGED fs

\* Image::Image(unsigned int w, unsigned int h) on object i.
ConstructWH(m, i, w, h, k) ==
  Then([m EXCEPT !.img[i] = [NoObject EXCEPT !.alive = TRUE,
                               !.m_width = w, !.m_height = h]], LAMBDA m1 :
    allocateMemory(m1, i, PatternFill(k)))

ConstructDims(i, w, h, k) ==
  /\ Running /\ ~img[i].alive
  /\ CanAlloc(heap, h + 1, MemBlocks)
  /\ Commit(ConstructWH(Start, i, w, h, k), Call("Image(w,h)", Tmp, Tmp))
  /\ UNCHANGED fs

\* Image::Image(const Image& other) on object i.
copyConstruct(m, i, j) == Then(construct(m, i), LAMBDA m1 : copyFrom(m1, i, j))

CopyConstruct(i, j) ==
  /\ Running /\ ~img[i].alive /\ img[j].alive /\ i # j
  /\ CanAlloc(heap, img[j].m_height + 1, MemBlocks)
  /\ Commit(copyConstruct(Start, i, j), Call("Image(copy)", i, j))
  /\ UNCHANGED fs

\* Image::operator=
assign(m, i, j, g) ==
  IF i # j THEN Then(deallocateMemory(m, i, g), LAMBDA m1 : copyFrom(m1, i, j)) ELSE m

\* new[] throws when the free store is exhausted: the model leaves such calls out.
CanAssign(m, i, j, g, lim) ==
  i = j \/ CanAlloc(deallocateMemory(m, i, g).heap, m.img[j].m_height + 1, lim)

Assign(i, j) ==
  /\ Running /\ img[i].alive /\ img[j].alive
  /\ \E g \in Garbage(Start, i) :
       /\ CanAssign(Start, i, j, g, MemBlocks)
       /\ Commit(assign(Start, i, j, g), Call("operator=", i, j))
  /\ UNCHANGED fs

\* Image::release
releaseKeepDims(m, i, g) == deallocateMemory(m, i, g)
release(m, i, g) ==
  Then(deallocateMemory(m, i, g), LAMBDA m1 :
    [m1 EXCEPT !.img[i].m_width = 0, !.img[i].m_height = 0])

Release(i) ==
  /\ Running /\ img[i].alive
  /\ \E g \in Garbage(Start, i) :
       \E m \in {release(Start, i, g)} : Commit(m, WithFreed(Call("release", i, Tmp), m))
  /\ UNCHANGED fs

\* Image::~Image
destroy(m, i, g) ==
  Then(deallocateMemory(m, i, g), LAMBDA m1 : [m1 EXCEPT !.img[i] = NoObject])

Destroy(i) ==
  /\ Running /\ img[i].alive
  /\ \E g \in Garbage(Start, i) : Commit(destroy(Start, i, g), Call("~Image", Tmp, Tmp))
  /\ UNCHANGED fs

\* img.at(x, y) = v, for a pixel of the image (at checks nothing).
at(m, i, x, y, v) ==
  [m EXCEPT !.heap[m.heap[m.img[i].m_data].cells[y + 1]].cells[x + 1] = v]

WriteVals == {7}
WriteAt(i, x, y, v) ==
  /\ Running /\ img[i].alive
  /\ x < img[i].m_width /\ y < img[i].m_height
  /\ Commit(at(Start, i, x, y, v), Call("at", i, Tmp))
  /\ UNCHANGED fs

(***************************************************************************)
(* Image::getROI(Image&, unsigned, unsigned, unsigned, unsigned)           *)
(***************************************************************************)
\* What a read outside every buffer yields: some byte, or a fault (SEGV).
SEGV == -1
GarbageBytes == {0, 255}
ReadOutcomes == GarbageBytes \cup {SEGV}

\* m_data[r][c] of image i lies inside its buffer (r, c: unsigned int).
InBuffer(m, i, r, c) ==
  /\ U32Small(r) /\ U32Val(r) < TableLen(m, i)
  /\ U32Small(c)
  /\ LET p == m.heap[m.img[i].m_data].cells[U32Val(r) + 1]
     IN  p \in Addr /\ m.heap[p].kind = "row" /\ U32Val(c) < Len(m.heap[p].cells)

\* roiImg.m_data[i][j] = m_data[y + i][x + j]; the indices are unsigned int sums.
roiCellNoOffset(m, src, dst, x, y, i, j, gv) ==
  IF InBuffer(m, src, U32Of(i), U32Of(j))
  THEN Then(PixelOf(m.img, m.heap, src, i, j), LAMBDA v :
         [at(m, dst, j, i, v) EXCEPT !.reads = @ + 1])
  ELSE m
roiCell(m, src, dst, x, y, i, j, gv) ==
  LET r == U32Add(y, U32Of(i))
      c == U32Add(x, U32Of(j))
  IN  IF InBuffer(m, src, r, c)
      THEN Then(PixelOf(m.img, m.heap, src, U32Val(r), U32Val(c)), LAMBDA v :
             [at(m, dst, j, i, v) EXCEPT !.reads = @ + 1])
      ELSE IF gv = SEGV THEN [m EXCEPT !.bad = @ \cup {"segv"}]
      ELSE [at(m, dst, j, i, gv) EXCEPT !.bad = @ \cup {"oob_read"}]

\* The two loops, from cell n of width * height in row-major order.
RECURSIVE roiLoop(_, _, _, _, _, _, _, _, _)
roiLoop(m, src, dst, x, y, width, height, n, gv) ==
  IF n >= width * height \/ "segv" \in m.bad THEN m
  ELSE Then(roiCell(m, src, dst, x, y, n \div width, n % width, gv), LAMBDA m1 :
         roiLoop(m1, src, dst, x, y, width, height, n + 1, gv))

\* x + width > m_width || y + height > m_height
OutsideExact(m, src, x, y, width, height) ==
  \/ MathSumGt(x, width, m.img[src].m_width)
  \/ MathSumGt(y, height, m.img[src].m_height)
Outside(m, src, x, y, width, height) ==
  \/ U32Gt(U32Add(x, width), U32Of(m.img[src].m_width))
  \/ U32Gt(U32Add(y, height), U32Of(m.img[src].m_height))

\* roiImg = Image(width, height): the temporary is built, assigned and destroyed.
roiAssign(m, dst, width, height, k, g) ==
  Then(ConstructWH(m, Tmp, width, height, k), LAMBDA m1 :
  Then(assign(m1, dst, Tmp, g), LAMBDA m2 :
    destroy(m2, Tmp, NoGarbage)))

getROI(m, src, dst, x, y, width, height, k, g, gv) ==
  IF Outside(m, src, x, y, width, height) THEN [m EXCEPT !.ret = "false"]
  ELSE Then(roiAssign(m, dst, U32Val(width), U32Val(height), k, g), LAMBDA m1 :
       Then(roiLoop(m1, src, dst, x, y, U32Val(width), U32Val(height), 0, gv), LAMBDA m2 :
         [m2 EXCEPT !.ret = IF "segv" \in m2.bad THEN "fault" ELSE "true"]))

CanGetROI(m, src, dst, x, y, width, height, k, g, lim) ==
  \/ Outside(m, src, x, y, width, height)
  \/ /\ U32Small(width) /\ U32Small(height)
     /\ CanAlloc(m.heap, U32Val(height) + 1, lim)
     /\ Then(ConstructWH(m, Tmp, U32Val(width), U32Val(height), k), LAMBDA m1 :
          CanAssign(m1, dst, Tmp, g, lim))

\* The arguments tried: offsets inside and just outside the image and the
\* largest unsigned int; extents up to the largest image.
OffsetArgs == {U32Of(n) : n \in 0..Max(MaxW, MaxH)} \cup {U32Max}
ExtentArgs(n) == {U32Of(e) : e \in 0..n}

\* A read outside every buffer can only happen past the check, when a sum
\* wrapped or when the destination is the source itself and the region does not
\* start at (0, 0); otherwise no outcome is drawn.
ReadOutcomesOf(m, src, dst, x, y, width, height) ==
  IF /\ ~Outside(m, src, x, y, width, height)
     /\ \/ src = dst /\ <<x, y>> # <<U32Of(0), U32Of(0)>>
        \/ OutsideExact(m, src, x, y, width, height)
  THEN ReadOutcomes ELSE {0}

GetROIStep(src, dst, x, y, width, height, call, lim) ==
  /\ Running /\ img[src].alive /\ img[dst].alive
  /\ \E k \in Fill, g \in Garbage(Start, dst),
        gv \in ReadOutcomesOf(Start, src, dst, x, y, width, height) :
       /\ CanGetROI(Start, src, dst, x, y, width, height, k, g, lim)
       /\ Commit(getROI(Start, src, dst, x, y, width, height, k, g, gv), call)
  /\ UNCHANGED fs

\* img[src].getROI(img[dst], x, y, width, height), the arguments kept.
GetROI(src, dst, x, y, width, height) ==
  GetROIStep(src, dst, x, y, width, height,
             [Call("getROI", src, dst) EXCEPT !.x = x, !.y = y, !.w = width, !.h = height],
             MaxAddr)

\* img[src].getROI(img[dst], 0, 0, width, height): a region at the top left
\* corner, of any extent.
GetROICorner(src, dst) ==
  \E width \in ExtentArgs(MemW), height \in ExtentArgs(MemH) :
    GetROIStep(src, dst, U32Of(0), U32Of(0), width, height, Call("getROI", Tmp, Tmp),
               MemBlocks)

(***************************************************************************)
(* Rectangle: two corner points <<x, y>> of int coordinates; getROI with a *)
(* Rectangle.                                                              *)
(***************************************************************************)
\* An int converted to unsigned int, for an int of small magnitude.
IntToU32(n) == IF n >= 0 THEN U32Of(n) ELSE [hi |-> Half - 1, lo |-> Half + n]
\* An unsigned int converted to int.
U32ToInt(a) == IF a.hi >= Half \div 2 THEN (a.hi - Half) * Half + a.lo ELSE a.hi * Half + a.lo
\* Rectangle::getX, getY, getWidth, getHeight
getX(r) == r.topLeft[1]
getY(r) == r.topLeft[2]
getWidth(r) == IntToU32(r.bottomRight[1] - r.topLeft[1])
getHeight(r) == IntToU32(r.bottomRight[2] - r.topLeft[2])

\* std::min and std::max of two unsigned int.
U32Min(a, b) == IF U32Gt(a, b) THEN b ELSE a
U32Max2(a, b) == IF U32Gt(a, b) THEN a ELSE b
\* getX() + getWidth(), getY() + getHeight(): int plus unsigned int is unsigned int.
rightOf(r) == U32Add(IntToU32(getX(r)), getWidth(r))
bottomOf(r) == U32Add(IntToU32(getY(r)), getHeight(r))

\* Rectangle::operator&
rectAnd(a, b) ==
  LET x1 == Max(getX(a), getX(b))
      y1 == Max(getY(a), getY(b))
      x2 == U32ToInt(U32Min(rightOf(a), rightOf(b)))
      y2 == U32ToInt(U32Min(bottomOf(a), bottomOf(b)))
  IN  IF x2 <= x1 \/ y2 <= y1 THEN Rect(<<0, 0>>, <<0, 0>>)
      ELSE Rect(<<x1, y1>>, <<x2, y2>>)

\* Rectangle::operator|
rectOr(a, b) ==
  LET x1 == Min(getX(a), getX(b))
      y1 == Min(getY(a), getY(b))
      x2 == U32ToInt(U32Max2(rightOf(a), rightOf(b)))
      y2 == U32ToInt(U32Max2(bottomOf(a), bottomOf(b)))
  IN  Rect(<<x1, y1>>, <<x2, y2>>)

RectSpan == 2      \* corners have coordinates from -RectSpan to RectSpan - 1
RectCoords == (0 - RectSpan)..(RectSpan - 1)
\* Rectangles with topLeft <= bottomRight in both coordinates.
Ordered ==
  {r \in [topLeft : RectCoords \X RectCoords, bottomRight : RectCoords \X RectCoords] :
     r.topLeft[1] <= r.bottomRight[1] /\ r.topLeft[2] <= r.bottomRight[2]}

Intersect(a, b) ==
  /\ Running /\ last.op = "none"
  /\ Commit(Start, [Call("rect&", Tmp, Tmp) EXCEPT !.ra = a, !.rb = b, !.rr = rectAnd(a, b)])
  /\ UNCHANGED fs

Unite(a, b) ==
  /\ Running /\ last.op = "none"
  /\ Commit(Start, [Call("rect|", Tmp, Tmp) EXCEPT !.ra = a, !.rb = b, !.rr = rectOr(a, b)])
  /\ UNCHANGED fs

\* The rectangles tried: a corner from one left of (above) the image to its
\* far edge, extents from -1 (corners inverted) to the largest image.
RectArgs ==
  {Rect(<<x, y>>, <<x + w, y + h>>) :
     x \in (0 - 1)..MaxW, y \in (0 - 1)..MaxH, w \in (0 - 1)..MaxW, h \in (0 - 1)..MaxH}

\* img[src].getROI(img[dst], roiRect).  A region that passes the check with an
\* extent of 2^31 or more asks for rows of gigabytes and is not followed.
GetROIRect(src, dst, r) ==
  /\ \/ Outside(Start, src, IntToU32(getX(r)), IntToU32(getY(r)), getWidth(r), getHeight(r))
     \/ U32Small(getWidth(r)) /\ U32Small(getHeight(r))
  /\ GetROIStep(src, dst, IntToU32(getX(r)), IntToU32(getY(r)), getWidth(r), getHeight(r),
                [Call("getROI(rect)", src, dst) EXCEPT
                   !.x = IntToU32(getX(r)), !.y = IntToU32(getY(r)),
                   !.w = getWidth(r), !.h = getHeight(r),
                   !.p1 = r.topLeft, !.p2 = r.bottomRight],
                MaxAddr)

(***************************************************************************)
(* The files.  A file is a sequence of bytes.  Path 1 can be written and   *)
(* holds no file at first; the other paths hold files that cannot be       *)
(* written.                                                                *)
(***************************************************************************)
NumPath == 2
Path == 1..NumPath
NoFile == <<-1>>     \* no file at the path
Writable(p) == p = 1

WS == {9, 10, 11, 12, 13, 32}
Digits == 48..57
P5 == <<80, 53>>

\* The decimal digits of n, as operator<< writes an unsigned int.
RECURSIVE Dec(_)
Dec(n) == IF n < 10 THEN <<48 + n>> ELSE Append(Dec(n \div 10), 48 + (n % 10))
\* The number a sequence of decimal digits stands for.
RECURSIVE DecVal(_)
DecVal(d) ==
  IF d = <<>> THEN 0 ELSE DecVal(SubSeq(d, 1, Len(d) - 1)) * 10 + (d[Len(d)] - 48)

\* The first position from p on whose byte is not in S (Len(f) + 1: none).
SkipIn(f, p, S) ==
  CHOOSE q \in p..(Len(f) + 1) :
    /\ q = Len(f) + 1 \/ f[q] \notin S
    /\ \A t \in p..(q - 1) : f[t] \in S

\* The stream: the position of the next byte, and failbit.
Opened == [pos |-> 1, fail |-> FALSE]

\* file >> magic (std::string): white space is skipped, then the bytes up to
\* the next white space are taken.
ReadToken(f, st) ==
  IF st.fail THEN [tok |-> <<>>, st |-> st]
  ELSE Then(SkipIn(f, st.pos, WS), LAMBDA p :
       Then(SkipIn(f, p, Byte \ WS), LAMBDA q :
         [tok |-> SubSeq(f, p, q - 1), st |-> [pos |-> q, fail |-> p > Len(f)]]))

\* file >> n (unsigned int or int) with n holding old: white space is skipped
\* and the digits are taken.  At the end of the file n keeps its value; where no
\* digit stands n becomes 0; both set failbit, and a failed stream reads nothing.
ReadUInt(f, st, old) ==
  IF st.fail THEN [val |-> old, st |-> st]
  ELSE Then(SkipIn(f, st.pos, WS), LAMBDA p :
       Then(SkipIn(f, p, Digits), LAMBDA q :
         IF p > Len(f) THEN [val |-> old, st |-> [pos |-> p, fail |-> TRUE]]
         ELSE IF q = p THEN [val |-> 0, st |-> [pos |-> p, fail |-> TRUE]]
         ELSE [val |-> DecVal(SubSeq(f, p, q - 1)), st |-> [pos |-> q, fail |-> FALSE]]))

\* file.get()
KeepSeparator(f, st) == st
Get(f, st) ==
  IF st.fail \/ st.pos > Len(f) THEN [st EXCEPT !.fail = TRUE]
  ELSE [st EXCEPT !.pos = @ + 1]

\* The n-th file.read(&gray, 1) after position pos (n from 0): the byte, or
\* what gray held (ind) when the file has ended.
ReadGray(f, st, n, ind) ==
  IF ~st.fail /\ st.pos + n <= Len(f) THEN f[st.pos + n] ELSE ind

\* Image::save: what is written to the file.
PGMBytes(im, hp, i) ==
  LET w == im[i].m_width
      h == im[i].m_height
  IN  <<80, 53, 10>> \o Dec(w) \o <<32>> \o Dec(h) \o <<10, 50, 53, 53, 10>>
      \o [n \in 1..(w * h) |-> PixelOf(im, hp, i, (n - 1) \div w, (n - 1) % w)]

\* Image::save on the file system: [ret, fs].
save(m, i, files, p) ==
  IF ~Writable(p) THEN [ret |-> "false", fs |-> files]
  ELSE [ret |-> "true", fs |-> [files EXCEPT ![p] = PGMBytes(m.img, m.heap, i)]]

Save(i, p) ==
  /\ Running /\ img[i].alive
  /\ \E r \in {save(Start, i, fs, p)} :
       /\ fs' = r.fs
       /\ Commit([Start EXCEPT !.ret = r.ret], [Call("save", i, Tmp) EXCEPT !.path = p])

\* Image::load up to deallocateMemory: the magic token is checked and the
\* header is read into m_width and m_height.  [m, st, ok].
loadHeader(m, i, f) ==
  IF f = NoFile THEN [m |-> m, st |-> Opened, ok |-> FALSE]
  ELSE Then(ReadToken(f, Opened), LAMBDA t :
    IF t.tok # P5 THEN [m |-> m, st |-> t.st, ok |-> FALSE]
    ELSE Then(ReadUInt(f, t.st, m.img[i].m_width), LAMBDA rw :
         Then(ReadUInt(f, rw.st, m.img[i].m_height), LAMBDA rh :
         Then(Get(f, ReadUInt(f, rh.st, 0).st), LAMBDA st :
           [m |-> [m EXCEPT !.img[i].m_isGrayscale = TRUE,
                            !.img[i].m_width = rw.val,
                            !.img[i].m_height = rh.val],
            st |-> st, ok |-> TRUE]))))

\* Image::load
LoadDeallocateFirst(m, i, f, g, ind) ==
  Then(deallocateMemory(m, i, NoGarbage), LAMBDA m0 :
    [m0 EXCEPT !.ret = "false", !.img[i].m_width = 0, !.img[i].m_height = 0])
load(m, i, f, g, ind) ==
  Then(loadHeader(m, i, f), LAMBDA hd :
    IF ~hd.ok THEN [m EXCEPT !.ret = "false"]
    ELSE Then(deallocateMemory(hd.m, i, g), LAMBDA m2 :
         Then(allocateMemory(m2, i, PatternFill(1)), LAMBDA m3 :
         Then(StorePixels(m3, i,
                [r \in 1..m3.img[i].m_height |-> [c \in 1..m3.img[i].m_width |->
                   ReadGray(f, hd.st, (r - 1) * m3.img[i].m_width + (c - 1), ind)]]),
              LAMBDA m4 : [m4 EXCEPT !.ret = "true"]))))

\* What an unset gray may hold: drawn only when the file ends too early.
GrayOutcomes(hd, i, f) ==
  IF hd.ok /\ (hd.st.fail \/ hd.st.pos + hd.m.img[i].m_width * hd.m.img[i].m_height - 1 > Len(f))
  THEN GarbageBytes ELSE {0}

Load(i, p) ==
  /\ Running /\ img[i].alive
  /\ \E hd \in {loadHeader(Start, i, fs[p])} :
     \E g \in Garbage(hd.m, i), ind \in GrayOutcomes(hd, i, fs[p]) :
       /\ ~hd.ok \/ CanAlloc(deallocateMemory(hd.m, i, g).heap, hd.m.img[i].m_height + 1, MaxAddr)
       /\ \E m \in {load(Start, i, fs[p], g, ind)} :
            Commit(m, WithFreed([Call("load", i, Tmp) EXCEPT !.path = p], m))
  /\ UNCHANGED fs

\* Files that are no binary PGM: an empty file, a plain PGM (P2), a longer
\* first token (P55).
BadFiles ==
  { <<>>,
    <<80, 50, 10, 49, 32, 49, 10, 50, 53, 53, 10, 55>>,
    <<80, 53, 53, 10, 49, 32, 49, 10, 50, 53, 53, 10, 55>> }

(***************************************************************************)
(* Image::operator+ and Image::operator-, with an image and with a value.  *)
(***************************************************************************)
\* The conversion of an int to unsigned char.
ToUChar(n) == n % 256
\* std::min(255, a + b) and std::max(0, a - b), stored in an unsigned char.
WrapAdd(a, b) == ToUChar(a + b)
SatAdd(a, b) == ToUChar(Min(255, a + b))
WrapSub(a, b) == ToUChar(a - b)
SatSub(a, b) == ToUChar(Max(0, a - b))

\* Image::isEmpty
isEmpty(im, i) == im[i].m_data = NULL \/ im[i].m_width = 0 \/ im[i].m_height = 0

\* Where Image result(m_width, m_height) lives: in the returned object itself
\* when the copy on return is elided, in a local otherwise.
ResultObj(elide) == IF elide THEN Tmp ELSE Loc
\* return result;
returnResult(m, elide) ==
  IF elide THEN m
  ELSE Then(copyConstruct(m, Tmp, Loc), LAMBDA m1 : destroy(m1, Loc, NoGarbage))

\* Image result(m_width, m_height) of image i, and the two loops that store
\* px[r][c] (r, c from 1) in it, reading n pixels per cell.
resultLoops(m, i, px, n, k, elide) ==
  Then(ConstructWH(m, ResultObj(elide), m.img[i].m_width, m.img[i].m_height, k), LAMBDA m1 :
  Then(StorePixels(m1, ResultObj(elide), px), LAMBDA m2 :
    returnResult([m2 EXCEPT !.reads = @ + n * m.img[i].m_width * m.img[i].m_height], elide)))

SameDims(m, i, j) ==
  m.img[i].m_width = m.img[j].m_width /\ m.img[i].m_height = m.img[j].m_height

\* Image::operator+(const Image&) of image i with image j.
SizedOnMismatch(m, i, j, k, elide) ==
  ConstructWH(m, Tmp, m.img[i].m_width, m.img[i].m_height, k)
addImage(m, i, j, k, elide) ==
  IF ~SameDims(m, i, j) THEN construct(m, Tmp)
  ELSE resultLoops(m, i,
         [r \in 1..m.img[i].m_height |-> [c \in 1..m.img[i].m_width |->
            SatAdd(PixelOf(m.img, m.heap, i, r - 1, c - 1),
                   PixelOf(m.img, m.heap, j, r - 1, c - 1))]],
         2, k, elide)

\* Image::operator-(const Image&) of image i with image j.
subImage(m, i, j, k, elide) ==
  IF ~SameDims(m, i, j) THEN construct(m, Tmp)
  ELSE resultLoops(m, i,
         [r \in 1..m.img[i].m_height |-> [c \in 1..m.img[i].m_width |->
            SatSub(PixelOf(m.img, m.heap, i, r - 1, c - 1),
                   PixelOf(m.img, m.heap, j, r - 1, c - 1))]],
         2, k, elide)

\* Image::operator+(unsigned char) of image i.
addValue(m, i, value, k, elide) ==
  resultLoops(m, i,
    [r \in 1..m.img[i].m_height |-> [c \in 1..m.img[i].m_width |->
       SatAdd(PixelOf(m.img, m.heap, i, r - 1, c - 1), value)]],
    1, k, elide)

\* Image::operator-(unsigned char) of image i.
subValue(m, i, value, k, elide) ==
  resultLoops(m, i,
    [r \in 1..m.img[i].m_height |-> [c \in 1..m.img[i].m_width |->
       SatSub(PixelOf(m.img, m.heap, i, r - 1, c - 1), value)]],
    1, k, elide)

\* The values tried: those near 0 and those near 255.
ValueArgs == {v \in Byte : v < Edge \/ v > 255 - Edge}

\* The blocks the result needs at most: the local and the returned copy.
CanReturn(i, elide) ==
  CanAlloc(heap, (IF elide THEN 1 ELSE 2) * (img[i].m_height + 1), MaxAddr)

\* img[i] + img[j], img[i] - img[j], img[i] + value, img[i] - value: the
\* result is the temporary of the expression.
AddImage(i, j) ==
  /\ Running /\ last.op = "none" /\ img[i].alive /\ img[j].alive
  /\ \E k \in Fill, elide \in BOOLEAN :
       /\ CanReturn(i, elide)
       /\ Commit(addImage(Start, i, j, k, elide), Call("operator+(Image)", i, j))
  /\ UNCHANGED fs

SubImage(i, j) ==
  /\ Running /\ last.op = "none" /\ img[i].alive /\ img[j].alive
  /\ \E k \in Fill, elide \in BOOLEAN :
       /\ CanReturn(i, elide)
       /\ Commit(subImage(Start, i, j, k, elide), Call("operator-(Image)", i, j))
  /\ UNCHANGED fs

AddValue(i, value) ==
  /\ Running /\ last.op = "none" /\ img[i].alive
  /\ \E k \in Fill, elide \in BOOLEAN :
       /\ CanReturn(i, elide)
       /\ Commit(addValue(Start, i, value, k, elide),
                 [Call("operator+(value)", i, Tmp) EXCEPT !.c = value])
  /\ UNCHANGED fs

SubValue(i, value) ==
  /\ Running /\ last.op = "none" /\ img[i].alive
  /\ \E k \in Fill, elide \in BOOLEAN :
       /\ CanReturn(i, elide)
       /\ Commit(subValue(Start, i, value, k, elide),
                 [Call("operator-(value)", i, Tmp) EXCEPT !.c = value])
  /\ UNCHANGED fs

(***************************************************************************)
(* Images as a client has them before an operation is tried: default       *)
(* constructed, or constructed with dimensions and filled with a pattern.  *)
(***************************************************************************)
Shapes(W, H, K) ==
  {[def |-> TRUE, w |-> 0, h |-> 0, k |-> 1]}
    \cup {[def |-> FALSE, w |-> w, h |-> h, k |-> k] : w \in 0..W, h \in 0..H, k \in K}
Place(m, i, d) == IF d.def THEN construct(m, i) ELSE ConstructWH(m, i, d.w, d.h, d.k)
Nothing == Machine([i \in Obj |-> NoObject], [a \in Addr |-> FreeBlock])
\* Image 1 of shape d1, then image 2 of shape d2.
Given(d1, d2) == Then(Place(Nothing, 1, d1), LAMBDA m : Place(m, 2, d2))

(***************************************************************************)
(* A client that holds two images, saves them and loads files.             *)
(***************************************************************************)
InitFile ==
  /\ \E d1 \in Shapes(MaxW, MaxH, Pat), d2 \in Shapes(MemW, MemH, {NumPat}) :
     \E m \in {Given(d1, d2)} : img = m.img /\ heap = m.heap
  /\ fs \in [Path -> BadFiles \cup {NoFile}]
  /\ \A p \in Path : fs[p] = NoFile <=> Writable(p)
  /\ bad = {}
  /\ last = NoCall
  /\ ui = NoUI

NextFile ==
  \/ \E i \in Img, p \in Path : Save(i, p)
  \/ \E i \in Img, p \in Path : Load(i, p)

SpecFile == InitFile /\ [][NextFile]_vars

(***************************************************************************)
(* One arithmetic expression over two images a client holds.               *)
(***************************************************************************)
InitGiven ==
  /\ \E d1 \in Shapes(MaxW, MaxH, Pat), d2 \in Shapes(MaxW, MaxH, {NumPat}) :
     \E m \in {Given(d1, d2)} : img = m.img /\ heap = m.heap
  /\ fs = [p \in Path |-> NoFile]
  /\ bad = {}
  /\ last = NoCall
  /\ ui = NoUI

NextArith ==
  \/ \E i, j \in Img : AddImage(i, j)
  \/ \E i, j \in Img : SubImage(i, j)
  \/ \E i \in Img, value \in ValueArgs : AddValue(i, value)
  \/ \E i \in Img, value \in ValueArgs : SubValue(i, value)

SpecArith == InitGiven /\ [][NextArith]_vars

(***************************************************************************)
(* One region extraction between two images a client holds, or from an     *)
(* image into itself.                                                      *)
(***************************************************************************)
NextROI ==
  \E src, dst \in Img, x, y \in OffsetArgs,
     width \in ExtentArgs(MaxW), height \in ExtentArgs(MaxH) :
    last.op = "none" /\ GetROI(src, dst, x, y, width, height)

SpecROI == InitGiven /\ [][NextROI]_vars

\* The same with the region given as a Rectangle.
NextROIRect ==
  \E src, dst \in Img, r \in RectArgs : last.op = "none" /\ GetROIRect(src, dst, r)

SpecROIRect == InitGiven /\ [][NextROIRect]_vars

(***************************************************************************)
(* A client that constructs, copies, assigns, extracts regions, writes     *)
(* pixels, releases and destroys images.                                   *)
(***************************************************************************)
InitMem ==
  /\ img = [i \in Obj |-> NoObject]
  /\ heap = [a \in Addr |-> FreeBlock]
  /\ fs = [p \in Path |-> NoFile]
  /\ bad = {}
  /\ last = NoCall
  /\ ui = NoUI

NextMem ==
  \/ \E i \in Img : Construct(i)
  \/ \E i \in Img, w \in 0..MemW, h \in 0..MemH, k \in Fill : ConstructDims(i, w, h, k)
  \/ \E i, j \in Img : CopyConstruct(i, j)
  \/ \E i, j \in Img : Assign(i, j)
  \/ \E i \in Img : Release(i)
  \/ \E i \in Img : Destroy(i)
  \/ \E src, dst \in Img : GetROICorner(src, dst)

SpecMem == InitMem /\ [][NextMem]_vars

(***************************************************************************)
(* One operation on two rectangles.                                        *)
(***************************************************************************)
NextRect ==
  \/ \E a, b \in Ordered : Intersect(a, b)
  \/ \E a, b \in Ordered : Unite(a, b)

SpecRect == InitMem /\ [][NextRect]_vars

(***************************************************************************)
(* The same client without region extraction, writing pixels through at.   *)
(***************************************************************************)
NextCopy ==
  \/ \E i \in Img : Construct(i)
  \/ \E i \in Img, w \in 0..MemW, h \in 0..MemH, k \in Fill : ConstructDims(i, w, h, k)
  \/ \E i, j \in Img : CopyConstruct(i, j)
  \/ \E i, j \in Img : Assign(i, j)
  \/ \E i \in Img : Release(i)
  \/ \E i \in Img : Destroy(i)
  \/ \E i \in Img, x \in 0..(MemW - 1), y \in 0..(MemH - 1), v \in WriteVals : WriteAt(i, x, y, v)

SpecCopy == InitMem /\ [][NextCopy]_vars

(***************************************************************************)
(* Drawing::drawCircle and Drawing::drawLine.                              *)
(***************************************************************************)
DrawW == 3         \* largest width of an image that is drawn on
DrawH == 3         \* largest height of an image that is drawn on
Margin == 1        \* how far outside the image centers and endpoints lie
MaxR == 3          \* largest radius

\* img.at(x, y) = v with x, y >= 0: m_data[y][x] is written.  at checks
\* nothing: outside the buffer the write goes astray.
atWrite(m, i, x, y, v) ==
  IF InBuffer(m, i, U32Of(y), U32Of(x))
  THEN [at(m, i, x, y, v) EXCEPT !.writes = @ \cup {<<y, x>>}]
  ELSE [m EXCEPT !.bad = @ \cup {"oob_write"}, !.writes = @ \cup {<<y, x>>}]

\* One candidate point (px, py) of drawCircle: px is tested against width(),
\* py against height(), and the write is img.at(py, px).
plotCircle(m, i, px, py, v) ==
  IF px >= 0 /\ px < m.img[i].m_width /\ py >= 0 /\ py < m.img[i].m_height
  THEN atWrite(m, i, py, px, v)
  ELSE m

\* The eight candidates of the octant point (x, y), in the order of the code,
\* as offsets from the center.
Mirrors(x, y) ==
  << <<x, y>>, <<y, x>>, <<0 - x, y>>, <<0 - y, x>>,
     <<x, 0 - y>>, <<y, 0 - x>>, <<0 - x, 0 - y>>, <<0 - y, 0 - x>> >>

RECURSIVE plotMirrors(_, _, _, _, _, _, _)
plotMirrors(m, i, cx, cy, pts, n, v) ==
  IF n > Len(pts) THEN m
  ELSE Then(plotCircle(m, i, cx + pts[n][1], cy + pts[n][2], v), LAMBDA m1 :
         plotMirrors(m1, i, cx, cy, pts, n + 1, v))

\* while (x <= y) { ... }
RECURSIVE circleLoop(_, _, _, _, _, _, _, _)
circleLoop(m, i, cx, cy, x, y, d, v) ==
  IF x > y THEN m
  ELSE Then(plotMirrors(m, i, cx, cy, Mirrors(x, y), 1, v), LAMBDA m1 :
         IF d < 0 THEN circleLoop(m1, i, cx, cy, x + 1, y, d + 4 * x + 6, v)
         ELSE circleLoop(m1, i, cx, cy, x + 1, y - 1, d + 4 * (x - y) + 10, v))

\* Drawing::drawCircle
drawCircle(m, i, cx, cy, radius, v) == circleLoop(m, i, cx, cy, 0, radius, 3 - 2 * radius, v)

\* One visited point of drawLine: tested against width() and height(), and
\* the write is img.at(x1, y1).
plotTransposed(m, i, x, y, v) ==
  IF x >= 0 /\ x < m.img[i].m_width /\ y >= 0 /\ y < m.img[i].m_height
  THEN atWrite(m, i, y, x, v)
  ELSE m
plotUnchecked(m, i, x, y, v) ==
  IF x >= 0 /\ y >= 0 THEN atWrite(m, i, x, y, v) ELSE m
plotLine(m, i, x, y, v) ==
  IF x >= 0 /\ x < m.img[i].m_width /\ y >= 0 /\ y < m.img[i].m_height
  THEN atWrite(m, i, x, y, v)
  ELSE m

Abs(n) == IF n < 0 THEN 0 - n ELSE n

\* The iterations of the loop of drawLine that are followed: a line between
\* points of Coords takes fewer.
LineSteps == DrawW + DrawH + 4 * Margin

\* while (true) { ... }, from its iteration n.
RECURSIVE lineLoop(_, _, _, _, _, _, _, _, _, _, _, _, _)
lineLoop(m, i, x1, y1, x2, y2, dx, dy, sx, sy, err, v, n) ==
  IF n > LineSteps THEN [m EXCEPT !.bad = @ \cup {"diverges"}]
  ELSE
  Then(plotLine([m EXCEPT !.visits = Append(@, <<x1, y1>>)], i, x1, y1, v), LAMBDA m1 :
    IF x1 = x2 /\ y1 = y2 THEN m1
    ELSE LET e2 == 2 * err
             mx == e2 > 0 - dy
             my == e2 < dx
         IN  lineLoop(m1, i,
                      IF mx THEN x1 + sx ELSE x1,
                      IF my THEN y1 + sy ELSE y1,
                      x2, y2, dx, dy, sx, sy,
                      err - (IF mx THEN dy ELSE 0) + (IF my THEN dx ELSE 0), v, n + 1))

\* Drawing::drawLine
drawLineForward(m, i, x1, y1, x2, y2, v) ==
  lineLoop(m, i, x1, y1, x2, y2, Abs(x2 - x1), Abs(y2 - y1), 1, 1,
           Abs(x2 - x1) - Abs(y2 - y1), v, 1)
drawLine(m, i, x1, y1, x2, y2, v) ==
  lineLoop(m, i, x1, y1, x2, y2, Abs(x2 - x1), Abs(y2 - y1),
           IF x1 < x2 THEN 1 ELSE -1, IF y1 < y2 THEN 1 ELSE -1,
           Abs(x2 - x1) - Abs(y2 - y1), v, 1)

\* Drawing::drawRectangle(Image&, Point, Point, unsigned char)
drawRectangleOpen(m, i, tl, br, v) ==
  Then(drawLine(m, i, tl[1], tl[2], br[1], tl[2], v), LAMBDA m1 :
  Then(drawLine(m1, i, br[1], tl[2], br[1], br[2], v), LAMBDA m2 :
    drawLine(m2, i, br[1], br[2], tl[1], br[2], v)))
drawRectangle(m, i, tl, br, v) ==
  LET tr == <<br[1], tl[2]>>
      bl == <<tl[1], br[2]>>
  IN  Then(drawLine(m, i, tl[1], tl[2], tr[1], tr[2], v), LAMBDA m1 :
      Then(drawLine(m1, i, tr[1], tr[2], br[1], br[2], v), LAMBDA m2 :
      Then(drawLine(m2, i, br[1], br[2], bl[1], bl[2], v), LAMBDA m3 :
        drawLine(m3, i, bl[1], bl[2], tl[1], tl[2], v))))
\* Drawing::drawRectangle(Image&, Rectangle, unsigned char)
drawRectangleRect(m, i, r, v) == drawRectangle(m, i, r.topLeft, r.bottomRight, v)

DrawVals == {200}
CoordsX == (0 - Margin)..(DrawW + Margin - 1)
CoordsY == (0 - Margin)..(DrawH + Margin - 1)

DrawCircle(i, cx, cy, radius, v) ==
  /\ Running /\ last.op = "none" /\ img[i].alive
  /\ \E m \in {drawCircle(Start, i, cx, cy, radius, v)} :
       Commit(m, WithWrites([Call("drawCircle", i, Tmp) EXCEPT
                               !.p1 = <<cx, cy>>, !.c = radius, !.path = v], m))
  /\ UNCHANGED fs

DrawLine(i, x1, y1, x2, y2, v) ==
  /\ Running /\ last.op = "none" /\ img[i].alive
  /\ \E m \in {drawLine(Start, i, x1, y1, x2, y2, v)} :
       Commit(m, WithVisits(WithWrites([Call("drawLine", i, Tmp) EXCEPT
                               !.p1 = <<x1, y1>>, !.p2 = <<x2, y2>>, !.path = v], m), m))
  /\ UNCHANGED fs

DrawRectangle(i, tl, br, v) ==
  /\ Running /\ last.op = "none" /\ img[i].alive
  /\ \E m \in {drawRectangle(Start, i, tl, br, v)} :
       Commit(m, WithWrites([Call("drawRectangle", i, Tmp) EXCEPT
                               !.p1 = tl, !.p2 = br, !.path = v], m))
  /\ UNCHANGED fs

DrawRectangleRect(i, r, v) ==
  /\ Running /\ last.op = "none" /\ img[i].alive
  /\ \E m \in {drawRectangleRect(Start, i, r, v)} :
       Commit(m, WithWrites([Call("drawRectangle(rect)", i, Tmp) EXCEPT
                               !.p1 = r.topLeft, !.p2 = r.bottomRight, !.path = v], m))
  /\ UNCHANGED fs

(***************************************************************************)
(* One drawing call on an image a client holds.                            *)
(***************************************************************************)
InitDraw ==
  /\ \E d1 \in Shapes(DrawW, DrawH, {1}), d2 \in {d \in Shapes(0, 0, {1}) : d.def} :
     \E m \in {Given(d1, d2)} : img = m.img /\ heap = m.heap
  /\ fs = [p \in Path |-> NoFile]
  /\ bad = {}
  /\ last = NoCall
  /\ ui = NoUI

NextDraw ==
  \/ \E i \in Img, cx \in CoordsX, cy \in CoordsY, radius \in 0..MaxR, v \in DrawVals :
       DrawCircle(i, cx, cy, radius, v)
  \/ \E i \in Img, x1 \in CoordsX, y1 \in CoordsY, x2 \in CoordsX, y2 \in CoordsY,
        v \in DrawVals :
       DrawLine(i, x1, y1, x2, y2, v)
  \/ \E i \in Img, x1 \in CoordsX, y1 \in CoordsY, x2 \in CoordsX, y2 \in CoordsY,
        v \in DrawVals :
       DrawRectangle(i, <<x1, y1>>, <<x2, y2>>, v)
  \/ \E i \in Img, x1 \in CoordsX, y1 \in CoordsY, x2 \in CoordsX, y2 \in CoordsY,
        v \in DrawVals :
       DrawRectangleRect(i, Rect(<<x1, y1>>, <<x2, y2>>), v)

SpecDraw == InitDraw /\ [][NextDraw]_vars

(***************************************************************************)
(* The filters: BrightnessContrastAdjustment, GammaCorrection and          *)
(* Convolution, each with its process(src, dst).                           *)
(***************************************************************************)
FiltW == 3         \* largest width of an image that is filtered
FiltH == 3         \* largest height of an image that is filtered

INT_MAX == 2147483647
INT_MIN == 0 - INT_MAX - 1
\* What static_cast<int> may yield for a double outside the range of int.
CastOutcomes == {INT_MIN, INT_MAX}

\* The integer part of p / q, q > 0: truncation toward zero.
Trunc(p, q) == IF p >= 0 THEN p \div q ELSE 0 - ((0 - p) \div q)

\* static_cast<int>(srcPixel * alpha + beta).  With e > 0 the product is beyond
\* the range of int for every pixel but 0 (beta is small in the model).
bcValue(s, alpha, beta, ub) ==
  IF alpha.e > 0 /\ s * alpha.n # 0 THEN ub
  ELSE Trunc(s * alpha.n + beta * alpha.d, alpha.d)
\* BrightnessContrastAdjustment::process, one pixel.
bcPixel(s, alpha, beta, ub) == ToUChar(Min(255, Max(0, bcValue(s, alpha, beta, ub))))

RECURSIVE Pow(_, _)
Pow(b, n) == IF n = 0 THEN 1 ELSE b * Pow(b, n - 1)
\* static_cast<int>(255 * pow(srcPixel / 255.0, gamma)) for a natural gamma.
gammaValue(s, gamma) == IF gamma = 0 THEN 255 ELSE Pow(s, gamma) \div Pow(255, gamma - 1)
\* GammaCorrection::process, one pixel.
gammaPixel(s, gamma) == ToUChar(Min(255, gammaValue(s, gamma)))

\* One term of the sum of Convolution::process at (x, y): kernel cell (kx, ky).
convTermNoRadius(m, src, f, x, y, kx, ky) ==
  IF x + kx < m.img[src].m_width /\ y + ky < m.img[src].m_height
  THEN PixelOf(m.img, m.heap, src, y + ky, x + kx) * f.kernel[ky + 1][kx + 1]
  ELSE 0
convTermClampEdge(m, src, f, x, y, kx, ky) ==
  LET srcX == Max(0, Min(m.img[src].m_width - 1, x + kx - (f.kw \div 2)))
      srcY == Max(0, Min(m.img[src].m_height - 1, y + ky - (f.kh \div 2)))
  IN  PixelOf(m.img, m.heap, src, srcY, srcX) * f.kernel[ky + 1][kx + 1]
convTerm(m, src, f, x, y, kx, ky) ==
  LET srcX == x + kx - (f.kw \div 2)
      srcY == y + ky - (f.kh \div 2)
  IN  IF srcX >= 0 /\ srcX < m.img[src].m_width /\ srcY >= 0 /\ srcY < m.img[src].m_height
      THEN PixelOf(m.img, m.heap, src, srcY, srcX) * f.kernel[ky + 1][kx + 1]
      ELSE 0

\* The loops over ky and kx, from kernel cell n in row-major order.
RECURSIVE convSum(_, _, _, _, _, _)
convSum(m, src, f, x, y, n) ==
  IF n >= f.kw * f.kh THEN 0
  ELSE convTerm(m, src, f, x, y, n % f.kw, n \div f.kw) + convSum(m, src, f, x, y, n + 1)

\* scalingFunction(sum) converted to int, for the scaling function x / sd.
scalingFunction(f, sum) == Trunc(sum, f.sd)
\* Convolution::process, one pixel.
convPixel(m, src, f, x, y) ==
  ToUChar(Min(255, Max(0, scalingFunction(f, convSum(m, src, f, x, y, 0)))))

\* The value a filter stores at (x, y), from the source as it is now.
filterPixel(m, src, f, x, y, ub) ==
  IF f.kind = "bc" THEN bcPixel(PixelOf(m.img, m.heap, src, y, x), f.alpha, f.beta, ub)
  ELSE IF f.kind = "gamma" THEN gammaPixel(PixelOf(m.img, m.heap, src, y, x), f.gamma)
  ELSE convPixel(m, src, f, x, y)

\* The loops over y and x of process, from pixel n in row-major order.
RECURSIVE processLoop(_, _, _, _, _, _)
processLoop(m, src, dst, f, n, ub) ==
  IF n >= m.img[src].m_width * m.img[src].m_height THEN m
  ELSE LET x == n % m.img[src].m_width
           y == n \div m.img[src].m_width
       IN  Then(filterPixel(m, src, f, x, y, ub), LAMBDA v :
           Then(at(m, dst, x, y, v), LAMBDA m1 :
             processLoop(m1, src, dst, f, n + 1, ub)))

\* process(src, dst): dst = Image(src.width(), src.height()), then the loops.
process(m, src, dst, f, k, g, ub) ==
  Then(roiAssign(m, dst, m.img[src].m_width, m.img[src].m_height, k, g), LAMBDA m1 :
    processLoop(m1, src, dst, f, 0, ub))

\* The filters tried.
Alphas ==
  {[n |-> 0, d |-> 1, e |-> 0], [n |-> 1, d |-> 2, e |-> 0], [n |-> 1, d |-> 1, e |-> 0],
   [n |-> 3, d |-> 2, e |-> 0], [n |-> -1, d |-> 1, e |-> 0], [n |-> 1, d |-> 1, e |-> 40]}
Betas == {-20, 0, 50}
Gammas == {0, 2}
Identity3 == << <<0, 0, 0>>, <<0, 1, 0>>, <<0, 0, 0>> >>
SobelH == << <<-1, -2, -1>>, <<0, 0, 0>>, <<1, 2, 1>> >>
SobelV == << <<-1, 0, 1>>, <<-2, 0, 2>>, <<-1, 0, 1>> >>
Kernels == {Identity3, SobelH, SobelV}
\* Kernels of other shapes, even widths and heights among them, some with a
\* scaling function that halves.
Shaped(kn, sd) == [NoFilter EXCEPT !.kind = "conv", !.kernel = kn, !.kw = Len(kn[1]),
                                  !.kh = Len(kn), !.sd = sd]
OtherConvolutions ==
  {Shaped(<< <<1, 2>>, <<3, -1>> >>, 1), Shaped(<< <<1, 2>>, <<3, -1>> >>, 2),
   Shaped(<< <<1, 2>> >>, 1), Shaped(<< <<2>>, <<1>> >>, 2)}
Filters ==
  {[NoFilter EXCEPT !.kind = "bc", !.alpha = a, !.beta = b] : a \in Alphas, b \in Betas}
    \cup {[NoFilter EXCEPT !.kind = "gamma", !.gamma = gm] : gm \in Gammas}
    \cup {[NoFilter EXCEPT !.kind = "conv", !.kernel = kn, !.kw = 3, !.kh = 3] : kn \in Kernels}
    \cup OtherConvolutions

\* An outcome of the cast is drawn only where a value can leave the range.
CastOutcomesOf(f) == IF f.kind = "bc" /\ f.alpha.e > 0 THEN CastOutcomes ELSE {0}

Process(src, dst, f) ==
  /\ Running /\ last.op = "none" /\ img[src].alive /\ img[dst].alive
  /\ \E k \in Fill, g \in Garbage(Start, dst), ub \in CastOutcomesOf(f) :
       /\ CanAlloc(heap, img[src].m_height + 1, MaxAddr)
       /\ Then(ConstructWH(Start, Tmp, img[src].m_width, img[src].m_height, k), LAMBDA m1 :
            CanAssign(m1, dst, Tmp, g, MaxAddr))
       /\ Commit(process(Start, src, dst, f, k, g, ub),
                 [Call("process", src, dst) EXCEPT !.filter = f, !.ub = ub])
  /\ UNCHANGED fs

(***************************************************************************)
(* One filter applied between two images a client holds, or to an image    *)
(* and itself.                                                             *)
(***************************************************************************)
InitFilter ==
  /\ \E d1 \in Shapes(FiltW, FiltH, Pat), d2 \in Shapes(MemW, MemH, {NumPat}) :
     \E m \in {Given(d1, d2)} : img = m.img /\ heap = m.heap
  /\ fs = [p \in Path |-> NoFile]
  /\ bad = {}
  /\ last = NoCall
  /\ ui = NoUI

NextFilter == \E src, dst \in Img, f \in Filters : Process(src, dst, f)

SpecFilter == InitFilter /\ [][NextFilter]_vars

(***************************************************************************)
(* main: the menu loop.  It holds Image img (object Held), imageLoaded and  *)
(* outputPath; every handler builds its result in a local Image (Loc).      *)
(***************************************************************************)
MenuSteps == 4     \* choices made in one run of the menu
Held == 1

\* A name the user types: the file it names and whether it ends in ".pgm".
Names == [path : Path, pgm : BOOLEAN]
\* isValidPGMFile
isValidPGMFile(files, name) == files[name.path] # NoFile /\ name.pgm

\* The directories tried for outputPath.
Dirs == {"", "out"}
\* outputPath.empty() ? "<name>.pgm" : outputPath + "/<name>.pgm": the files
\* written in the working directory are path 1, those in a directory path 2.
OutputFile(dir) == IF dir = "" THEN 1 ELSE NumPath

\* The file the user starts with: a MaxW x MaxH image saved earlier.
InputFile ==
  Then(ConstructWH(Nothing, Held, MaxW, MaxH, 1), LAMBDA m : PGMBytes(m.img, m.heap, Held))

\* case 1 of main: [m, ok].
menuLoad(m, files, name, g, ind) ==
  IF ~isValidPGMFile(files, name) THEN [m |-> [m EXCEPT !.ret = "invalid"], ok |-> FALSE]
  ELSE Then(load(m, Held, files[name.path], g, ind), LAMBDA m1 :
         [m |-> m1, ok |-> m1.ret = "true"])
\* imageLoaded after case 1.
loadedIsLast(flag, ok) == ok
imageLoadedAfter(flag, ok) == flag \/ ok

\* handleBrightnessContrast, handleGammaCorrection and the end of
\* handleConvolution: Image result; filter.process(img, result);
\* result.save(outputFile).  [m, fs, ops].
handleFilterInPlace(m, files, dir, f, k, ub) ==
  Then(process(m, Held, Held, f, k, NoGarbage, ub), LAMBDA m2 :
  Then(save(m2, Held, files, OutputFile(dir)), LAMBDA r :
    [m |-> m2, fs |-> r.fs, ops |-> <<"process", "save">>]))
handleFilter(m, files, dir, f, k, ub) ==
  Then(construct(m, Loc), LAMBDA m1 :
  Then(process(m1, Held, Loc, f, k, NoGarbage, ub), LAMBDA m2 :
  Then(save(m2, Loc, files, OutputFile(dir)), LAMBDA r :
    [m |-> destroy(m2, Loc, NoGarbage), fs |-> r.fs, ops |-> <<"process", "save">>])))

\* The kernels of handleConvolution with integer entries.
KernelChoices == {1, 4, 5}
kernelOf(kc) == IF kc = 1 THEN Identity3 ELSE IF kc = 4 THEN SobelH ELSE SobelV
\* handleConvolution
handleConvolutionDefault(m, files, dir, kc, k) ==
  handleFilter(m, files, dir, Shaped(Identity3, 1), k, 0)
handleConvolution(m, files, dir, kc, k) ==
  IF kc \notin KernelChoices THEN [m |-> m, fs |-> files, ops |-> <<>>]
  ELSE handleFilter(m, files, dir, Shaped(kernelOf(kc), 1), k, 0)

\* drawShape: the shape is drawn on img itself, and img is saved.
drawShape(m, files, dir, choice, p1, p2, radius, v) ==
  Then(IF choice = 1 THEN drawCircle(m, Held, p1[1], p1[2], radius, v)
       ELSE IF choice = 2 THEN drawLine(m, Held, p1[1], p1[2], p2[1], p2[2], v)
       ELSE IF choice = 3 THEN drawRectangle(m, Held, p1, p2, v)
       ELSE m, LAMBDA m1 :
  Then(save(m1, Held, files, OutputFile(dir)), LAMBDA r :
    [m |-> m1, fs |-> r.fs,
     ops |-> IF choice \in 1..3 THEN <<"draw", "save">> ELSE <<"save">>]))

\* One pass of the loop has read a choice.
Asked == Running /\ ~ui.exited /\ ui.steps < MenuSteps
Menu(choice, sub) == [Call("menu", Held, Tmp) EXCEPT !.c = choice, !.sub = sub]
Stepped(u) == [u EXCEPT !.steps = @ + 1]

\* case 0: return 0; img is destroyed.
MenuExit ==
  /\ Asked
  /\ CommitState(destroy(Start, Held, NoGarbage), Menu(0, 0))
  /\ ui' = [Stepped(ui) EXCEPT !.exited = TRUE]
  /\ UNCHANGED fs

\* case 1: Input/change PGM file path.
MenuLoad(name) ==
  /\ Asked
  /\ \E hd \in {loadHeader(Start, Held, fs[name.path])} :
     \E g \in Garbage(hd.m, Held), ind \in GrayOutcomes(hd, Held, fs[name.path]) :
       /\ ~hd.ok \/ CanAlloc(deallocateMemory(hd.m, Held, g).heap,
                             hd.m.img[Held].m_height + 1, MaxAddr)
       /\ \E r \in {menuLoad(Start, fs, name, g, ind)} :
            /\ CommitState(r.m, [Menu(1, 0) EXCEPT !.path = name.path,
                                   !.ops = IF isValidPGMFile(fs, name) THEN <<"load">> ELSE <<>>])
            /\ ui' = [Stepped(ui) EXCEPT
                        !.imageLoaded = imageLoadedAfter(@, r.ok),
                        !.okLoads = IF r.ok THEN @ + 1 ELSE @]
  /\ UNCHANGED fs

\* case 2: Set output path.
MenuOutput(dir) ==
  /\ Asked
  /\ CommitState(Start, Menu(2, 0))
  /\ ui' = [Stepped(ui) EXCEPT !.outputPath = dir]
  /\ UNCHANGED fs

\* if (!imageLoaded) { ...; break; }
MenuRefused(choice) ==
  /\ Asked /\ ~ui.imageLoaded
  /\ CommitState(Start, Menu(choice, 0))
  /\ ui' = Stepped(ui)
  /\ UNCHANGED fs

\* The values the user enters for alpha, beta and gamma.
MenuFilters ==
  {f \in Filters : \/ f.kind = "bc" /\ f.alpha = [n |-> 3, d |-> 2, e |-> 0] /\ f.beta >= 0
                   \/ f.kind = "gamma"}

\* case 3 and case 4 with an image loaded.
MenuFilter(f) ==
  /\ Asked /\ ui.imageLoaded
  /\ CanAlloc(heap, 2 * (img[Held].m_height + 1), MaxAddr)
  /\ \E k \in Fill : \E r \in {handleFilter(Start, fs, ui.outputPath, f, k, 0)} :
       /\ CommitState(r.m, [Menu(IF f.kind = "bc" THEN 3 ELSE 4, 0) EXCEPT
                              !.filter = f, !.ops = r.ops])
       /\ fs' = r.fs
  /\ ui' = Stepped(ui)

\* case 5 with an image loaded.
MenuConvolution(kc) ==
  /\ Asked /\ ui.imageLoaded
  /\ CanAlloc(heap, 2 * (img[Held].m_height + 1), MaxAddr)
  /\ \E k \in Fill : \E r \in {handleConvolution(Start, fs, ui.outputPath, kc, k)} :
       /\ CommitState(r.m, [Menu(5, kc) EXCEPT !.ops = r.ops])
       /\ fs' = r.fs
  /\ ui' = Stepped(ui)

\* case 6 with an image loaded.
MenuDraw(choice, p1, p2, radius, v) ==
  /\ Asked /\ ui.imageLoaded
  /\ \E r \in {drawShape(Start, fs, ui.outputPath, choice, p1, p2, radius, v)} :
       /\ CommitState(r.m, WithWrites([Menu(6, choice) EXCEPT
                                        !.p1 = p1, !.p2 = p2, !.path = v, !.ops = r.ops], r.m))
       /\ fs' = r.fs
  /\ ui' = Stepped(ui)

\* default
MenuInvalid(choice) ==
  /\ Asked
  /\ CommitState(Start, Menu(choice, 0))
  /\ ui' = Stepped(ui)
  /\ UNCHANGED fs

\* The points and shapes the user enters in the draw menu.
MenuPoints == {<<0, 0>>, <<1, 1>>}
ShapeChoices == 0..4

InitMenu ==
  /\ \E m \in {construct(Nothing, Held)} : img = m.img /\ heap = m.heap
  /\ fs \in [Path -> {InputFile, NoFile} \cup BadFiles]
  /\ bad = {}
  /\ last = NoCall
  /\ ui = NoUI

NextMenu ==
  \/ MenuExit
  \/ \E name \in Names : MenuLoad(name)
  \/ \E dir \in Dirs : MenuOutput(dir)
  \/ \E choice \in 3..6 : MenuRefused(choice)
  \/ \E f \in MenuFilters : MenuFilter(f)
  \/ \E kc \in 0..6 \ {2, 3} : MenuConvolution(kc)
  \/ \E choice \in ShapeChoices, p1 \in MenuPoints, p2 \in MenuPoints, radius \in 0..1,
        v \in DrawVals :
       MenuDraw(choice, p1, p2, radius, v)
  \/ \E choice \in {7} : MenuInvalid(choice)

SpecMenu == InitMenu /\ [][NextMenu]_vars

(***************************************************************************)
(* Ownership of the blocks.                                                *)
(***************************************************************************)
\* The blocks image i holds: its row table and the row buffers in it.
OwnedBy(im, hp, i) ==
  IF ~im[i].alive \/ im[i].m_data = NULL THEN {}
  ELSE {im[i].m_data} \cup {hp[im[i].m_data].cells[r] : r \in 1..Len(hp[im[i].m_data].cells)}
Owned(im, hp) == UNION {OwnedBy(im, hp, i) : i \in Obj}
Leaked(im, hp) == {a \in Addr : hp[a].kind # "free"} \ Owned(im, hp)
\* The blocks the call handed to delete[].
FreedSet(call) == {call.freed[n] : n \in 1..Len(call.freed)}
Fresh(im, i) == im[i] = [NoObject EXCEPT !.alive = TRUE]

(***************************************************************************)
(* The claims.                                                             *)
(***************************************************************************)
\* C1: when an image has been saved to a file and the file is loaded into a
\* fresh (default constructed) image, load returns true and the loaded image
\* has the width, the height and every pixel of the saved one.
C1_SaveLoadRoundTrip ==
  [][\A i, j \in Img, p \in Path :
       (/\ last'.op = "load" /\ last'.this = i /\ last'.path = p
        /\ i # j /\ Fresh(img, i)
        /\ img[j].alive /\ img[j].m_width >= 1 /\ img[j].m_height >= 1
        /\ fs[p] = PGMBytes(img, heap, j))
       => /\ last'.ret = "true" /\ bad' = {}
          /\ img'[i].m_width = img[j].m_width
          /\ img'[i].m_height = img[j].m_height
          /\ Pixels(img', heap', i) = Pixels(img, heap, j)]_vars
\* A fresh image has loaded a file of MaxW x MaxH pixels.
C1_Witness ==
  /\ last.op = "load" /\ last.ret = "true" /\ last.freed = <<>>
  /\ img[last.this].m_width = MaxW /\ img[last.this].m_height = MaxH
  /\ \E j \in Img \ {last.this} : Pixels(img, heap, j) = Pixels(img, heap, last.this)

\* C2: over construction, copy, assignment, getROI, release and destruction
\* no block is handed to delete[] twice or without having come from new[], and
\* every block that is not free belongs to a living image: each buffer is freed
\* exactly once.
C2_EveryBufferFreedOnce ==
  /\ bad = {}
  /\ Leaked(img, heap) = {}
  /\ ~img[Tmp].alive /\ ~img[Loc].alive
\* An assignment has replaced a buffer, and both images hold full buffers.
C2_Witness ==
  /\ last.op = "operator=" /\ last.this # last.other
  /\ \A i \in Img : img[i].alive /\ img[i].m_height = MemH /\ img[i].m_data # NULL
  /\ Cardinality(Addr \ FreeAddrs(heap)) = 2 * (MemH + 1)

\* C3: a load that returns true on an image holding a buffer hands to delete[]
\* exactly the row buffers and the row table the image held, each once, and
\* the image then holds a buffer of the dimensions the file declares.
C3_LoadFreesOldBuffer ==
  [][(last'.op = "load" /\ last'.ret = "true" /\ img[last'.this].m_data # NULL)
       => /\ FreedSet(last') = OwnedBy(img, heap, last'.this)
          /\ Len(last'.freed) = Cardinality(OwnedBy(img, heap, last'.this))
          /\ img'[last'.this].m_data # NULL
          /\ TableLen([img |-> img', heap |-> heap'], last'.this) = img'[last'.this].m_height]_vars

\* C4: no two images share a block; after a copy construction or an assignment
\* from another image the target has the source's dimensions and pixels; a
\* write to a pixel of one image changes no pixel of any other image.
C4_DeepCopy ==
  [][/\ \A i, j \in Obj : i # j => OwnedBy(img', heap', i) \cap OwnedBy(img', heap', j) = {}
     /\ (last'.op \in {"Image(copy)", "operator="} /\ last'.this # last'.other)
          => /\ img'[last'.this].m_width = img[last'.other].m_width
             /\ img'[last'.this].m_height = img[last'.other].m_height
             /\ Pixels(img', heap', last'.this) = Pixels(img, heap, last'.other)
     /\ last'.op = "at"
          => \A j \in Img \ {last'.this} :
               img[j].alive => Pixels(img', heap', j) = Pixels(img, heap, j)]_vars
\* An image with a written pixel has been assigned to the other image, which
\* now holds that pixel too.
C4_Witness ==
  /\ last.op = "operator=" /\ last.this # last.other
  /\ img[last.this].m_width = MemW /\ img[last.this].m_height = MemH
  /\ \E v \in WriteVals : PixelOf(img, heap, last.this, MemH - 1, MemW - 1) = v

\* C10: a load that returns false leaves the width, the height and the pixels
\* of the image as they were.
C10_FailedLoadChangesNothing ==
  [][(last'.op = "load" /\ last'.ret = "false")
       => /\ img'[last'.this] = img[last'.this]
          /\ Pixels(img', heap', last'.this) = Pixels(img, heap, last'.this)]_vars
\* An image of MaxW x MaxH pixels has tried to load a file that is no binary PGM.
C10_Witness ==
  /\ last.op = "load" /\ last.ret = "false"
  /\ fs[last.path] # NoFile /\ fs[last.path] # <<>>
  /\ img[last.this].m_width = MaxW /\ img[last.this].m_height = MaxH

\* C5: (image + value) has the pixel min(255, v + value) and (image - value)
\* the pixel max(0, v - value) wherever the image has the pixel v; the result has
\* the dimensions of the image, and the image is not modified.
C5_ScalarSaturation ==
  [][\A i \in Img :
       (last'.op \in {"operator+(value)", "operator-(value)"} /\ last'.this = i)
       => /\ bad' = {}
          /\ img'[Tmp].alive
          /\ img'[Tmp].m_width = img[i].m_width
          /\ img'[Tmp].m_height = img[i].m_height
          /\ \A y \in 0..(img[i].m_height - 1), x \in 0..(img[i].m_width - 1) :
               PixelOf(img', heap', Tmp, y, x) =
                 IF last'.op = "operator+(value)"
                 THEN Min(255, PixelOf(img, heap, i, y, x) + last'.c)
                 ELSE Max(0, PixelOf(img, heap, i, y, x) - last'.c)
          /\ img'[i] = img[i]
          /\ Pixels(img', heap', i) = Pixels(img, heap, i)]_vars
\* A value has been added to an image of MaxW x MaxH pixels, and the sum of the
\* last pixel was clamped to 255 while the first pixel was not.
C5_Witness ==
  /\ last.op = "operator+(value)"
  /\ img[last.this].m_width = MaxW /\ img[last.this].m_height = MaxH
  /\ PixelOf(img, heap, last.this, MaxH - 1, MaxW - 1) + last.c > 255
  /\ PixelOf(img, heap, Tmp, MaxH - 1, MaxW - 1) = 255
  /\ PixelOf(img, heap, Tmp, 0, 0) < 255

\* C6: for images a and b of equal width and height, a + b has those
\* dimensions and the pixels min(255, a[p] + b[p]), a - b has the pixels
\* max(0, a[p] - b[p]), and neither a nor b is modified.
C6_ImageSaturation ==
  [][\A i, j \in Img :
       (/\ last'.op \in {"operator+(Image)", "operator-(Image)"}
        /\ last'.this = i /\ last'.other = j
        /\ img[i].m_width = img[j].m_width /\ img[i].m_height = img[j].m_height)
       => /\ bad' = {}
          /\ img'[Tmp].alive
          /\ img'[Tmp].m_width = img[i].m_width
          /\ img'[Tmp].m_height = img[i].m_height
          /\ \A y \in 0..(img[i].m_height - 1), x \in 0..(img[i].m_width - 1) :
               PixelOf(img', heap', Tmp, y, x) =
                 IF last'.op = "operator+(Image)"
                 THEN Min(255, PixelOf(img, heap, i, y, x) + PixelOf(img, heap, j, y, x))
                 ELSE Max(0, PixelOf(img, heap, i, y, x) - PixelOf(img, heap, j, y, x))
          /\ \A a \in Img : img'[a] = img[a] /\ Pixels(img', heap', a) = Pixels(img, heap, a)]_vars
\* An image has been subtracted from a different image of the same MaxW x MaxH
\* pixels, and the difference was clamped to 0.
C6_Witness ==
  /\ last.op = "operator-(Image)" /\ last.this # last.other
  /\ img[last.this].m_width = MaxW /\ img[last.this].m_height = MaxH
  /\ img[Tmp].m_width = MaxW /\ img[Tmp].m_height = MaxH
  /\ PixelOf(img, heap, last.this, 0, 0) < PixelOf(img, heap, last.other, 0, 0)
  /\ PixelOf(img, heap, Tmp, 0, 0) = 0

\* C7: adding or subtracting two images whose widths or heights differ yields
\* an image of width 0 and height 0 for which isEmpty() is true, and no pixel of
\* either image is read.
C7_DimensionMismatch ==
  [][\A i, j \in Img :
       (/\ last'.op \in {"operator+(Image)", "operator-(Image)"}
        /\ last'.this = i /\ last'.other = j
        /\ (img[i].m_width # img[j].m_width \/ img[i].m_height # img[j].m_height))
       => /\ bad' = {}
          /\ img'[Tmp].alive /\ isEmpty(img', Tmp)
          /\ img'[Tmp].m_width = 0 /\ img'[Tmp].m_height = 0
          /\ last'.reads = 0]_vars
\* Two images with pixels, of different heights, have been added.
C7_Witness ==
  /\ last.op = "operator+(Image)"
  /\ img[last.this].m_width = MaxW /\ img[last.other].m_width = MaxW
  /\ img[last.this].m_height = MaxH /\ img[last.other].m_height = MaxH - 1
  /\ img[Tmp].alive

\* C8: when x + width > m_width or y + height > m_height as mathematical
\* integers, getROI returns false and the destination keeps its dimensions and
\* pixels.
C8_ROIOutsideRejected ==
  [][(/\ last'.op = "getROI"
      /\ OutsideExact(Start, last'.this, last'.x, last'.y, last'.w, last'.h))
       => /\ last'.ret = "false"
          /\ img'[last'.other] = img[last'.other]
          /\ Pixels(img', heap', last'.other) = Pixels(img, heap, last'.other)]_vars

\* C9: when the region lies inside the source and the destination is another
\* object, getROI returns true, the destination becomes a width x height image
\* whose pixel (j, i) is the source's pixel (x + j, y + i), and the source is
\* unchanged.
C9_ROICopiesRegion ==
  [][\A src, dst \in Img :
       (/\ last'.op = "getROI" /\ last'.this = src /\ last'.other = dst /\ src # dst
        /\ ~OutsideExact(Start, src, last'.x, last'.y, last'.w, last'.h))
       => /\ last'.ret = "true" /\ bad' = {}
          /\ img'[dst].m_width = U32Val(last'.w)
          /\ img'[dst].m_height = U32Val(last'.h)
          /\ \A i \in 0..(U32Val(last'.h) - 1), j \in 0..(U32Val(last'.w) - 1) :
               PixelOf(img', heap', dst, i, j) =
                 PixelOf(img, heap, src, U32Val(last'.y) + i, U32Val(last'.x) + j)
          /\ img'[src] = img[src]
          /\ Pixels(img', heap', src) = Pixels(img, heap, src)]_vars
\* The bottom right pixel of an image of MaxW x MaxH pixels has been extracted
\* into an image that held a buffer of other dimensions.
C9_Witness ==
  /\ last.op = "getROI" /\ last.ret = "true" /\ last.this # last.other
  /\ last.x = U32Of(MaxW - 1) /\ last.y = U32Of(MaxH - 1)
  /\ last.w = U32Of(1) /\ last.h = U32Of(1)
  /\ img[last.this].m_width = MaxW /\ img[last.this].m_height = MaxH
  /\ PixelOf(img, heap, last.other, 0, 0) = PixelOf(img, heap, last.this, MaxH - 1, MaxW - 1)

\* The points of the tracked octant: x from 0, y from the radius, the decision
\* variable from 3 - 2 * radius.
RECURSIVE Octant(_, _, _)
Octant(x, y, d) ==
  IF x > y THEN {}
  ELSE {<<x, y>>} \cup (IF d < 0 THEN Octant(x + 1, y, d + 4 * x + 6)
                        ELSE Octant(x + 1, y - 1, d + 4 * (x - y) + 10))
\* The eight mirror images (+-x, +-y) and (+-y, +-x) of every octant point.
CircleOffsets(radius) ==
  UNION {{<<a, b>> : a \in {q[1], 0 - q[1]}, b \in {q[2], 0 - q[2]}}
           \cup {<<a, b>> : a \in {q[2], 0 - q[2]}, b \in {q[1], 0 - q[1]}}
         : q \in Octant(0, radius, 3 - 2 * radius)}
\* Every cell the call wrote lies in the buffer of image i as it was.
WritesInside(call, im, i) ==
  \A c \in call.writes : c[1] \in 0..(im[i].m_height - 1) /\ c[2] \in 0..(im[i].m_width - 1)

\* C11: every write of drawCircle addresses a row in [0, height) and a column
\* in [0, width), whatever the image size, the center and the radius.
C11_CircleWritesInside ==
  [][last'.op = "drawCircle" => (bad' = {} /\ WritesInside(last', img, last'.this))]_vars

\* C12: drawCircle sets to value exactly the pixels (center.x + a, center.y + b)
\* of the image for the mirror images (a, b) of the octant points, and leaves
\* every other pixel as it was.
C12_CirclePixels ==
  [][\A i \in Img :
       (last'.op = "drawCircle" /\ last'.this = i)
       => /\ bad' = {}
          /\ img'[i] = img[i]
          /\ \A y \in 0..(img[i].m_height - 1), x \in 0..(img[i].m_width - 1) :
               PixelOf(img', heap', i, y, x) =
                 IF <<x - last'.p1[1], y - last'.p1[2]>> \in CircleOffsets(last'.c)
                 THEN last'.path
                 ELSE PixelOf(img, heap, i, y, x)]_vars

\* C13: every write of drawLine is at a point with 0 <= x < width and
\* 0 <= y < height, whatever the image size and the endpoints.
C13_LineWritesInside ==
  [][last'.op = "drawLine" => (bad' = {} /\ WritesInside(last', img, last'.this))]_vars
\* A line from a point with negative coordinates to a point beyond the right
\* edge has been drawn on an image that is wider than high, and pixels were set.
C13_Witness ==
  /\ last.op = "drawLine" /\ last.writes # {}
  /\ img[last.this].m_width = DrawW /\ img[last.this].m_height = DrawH - 1
  /\ last.p1[1] < 0 /\ last.p1[2] < 0
  /\ last.p2[1] >= DrawW

\* C14: drawLine(img, p, p, v) with p inside the image sets pixel p to v and
\* changes no other pixel.
C14_DegenerateLine ==
  [][\A i \in Img :
       (/\ last'.op = "drawLine" /\ last'.this = i /\ last'.p1 = last'.p2
        /\ last'.p1[1] \in 0..(img[i].m_width - 1)
        /\ last'.p1[2] \in 0..(img[i].m_height - 1))
       => /\ bad' = {}
          /\ img'[i] = img[i]
          /\ \A y \in 0..(img[i].m_height - 1), x \in 0..(img[i].m_width - 1) :
               PixelOf(img', heap', i, y, x) =
                 IF <<x, y>> = last'.p1 THEN last'.path ELSE PixelOf(img, heap, i, y, x)]_vars
\* drawLine(img, (2,2), (2,2), 200) has run on an image that holds the point:
\* pixel (2,2) holds 200 and nothing else was written.
C14_Witness ==
  /\ last.op = "drawLine" /\ last.p1 = <<2, 2>> /\ last.p2 = <<2, 2>> /\ last.path = 200
  /\ img[last.this].m_width > 2 /\ img[last.this].m_height > 2
  /\ PixelOf(img, heap, last.this, 2, 2) = 200
  /\ last.writes = {<<2, 2>>}

\* The pixels process leaves in dst are those the filter computes from src as
\* it was when the call began, and dst has the dimensions src had.
ProcessResult(call, im, hp, im1, hp1) ==
  /\ im1[call.other].m_width = im[call.this].m_width
  /\ im1[call.other].m_height = im[call.this].m_height
  /\ \A y \in 0..(im[call.this].m_height - 1), x \in 0..(im[call.this].m_width - 1) :
       PixelOf(im1, hp1, call.other, y, x)
         = filterPixel(Machine(im, hp), call.this, call.filter, x, y, call.ub)

\* C15: for each of the three filters and every src and prior dst, after
\* process(src, dst) dst has src's width and height and every pixel of dst
\* holds the value computed from src and the parameters of the filter; nothing
\* of what dst was before survives.
C15_ProcessResult ==
  [][last'.op = "process" => (bad' = {} /\ ProcessResult(last', img, heap, img', heap'))]_vars
\* The same for the calls whose src and dst are two objects.
C15_DistinctResult ==
  [][(last'.op = "process" /\ last'.this # last'.other)
       => (bad' = {} /\ ProcessResult(last', img, heap, img', heap'))]_vars

\* C16: process never mutates src: for every filter and every pair of images
\* passed as src and dst, the width, the height and every pixel of src after
\* process(src, dst) equal their values before the call.
C16_SourceUntouched ==
  [][last'.op = "process"
       => /\ img'[last'.this].m_width = img[last'.this].m_width
          /\ img'[last'.this].m_height = img[last'.this].m_height
          /\ Pixels(img', heap', last'.this) = Pixels(img, heap, last'.this)]_vars

\* C17: convolving an image of any dimensions (1x1, one row, one column
\* included) with the kernel [[0,0,0],[0,1,0],[0,0,0]] and the identity as
\* scaling function into another image yields the source at every pixel.
C17_ConvolutionIdentity ==
  [][(/\ last'.op = "process" /\ last'.this # last'.other
      /\ last'.filter.kind = "conv" /\ last'.filter.kernel = Identity3)
       => /\ bad' = {}
          /\ img'[last'.other].m_width = img[last'.this].m_width
          /\ img'[last'.other].m_height = img[last'.this].m_height
          /\ Pixels(img', heap', last'.other) = Pixels(img, heap, last'.this)]_vars
\* An image of one column and FiltH rows has been convolved with the identity
\* kernel into an image that had other dimensions, and the two are equal.
C17_Witness ==
  /\ last.op = "process" /\ last.this # last.other
  /\ last.filter.kind = "conv" /\ last.filter.kernel = Identity3
  /\ img[last.this].m_width = 1 /\ img[last.this].m_height = FiltH
  /\ Pixels(img, heap, last.other) = Pixels(img, heap, last.this)

\* clamp(trunc(alpha * s + beta), 0, 255) for alpha = (n / d) * 2^e, computed
\* exactly: with e > 0 the sign of alpha * s decides, beta being small.
Clamped(s, alpha, beta) ==
  IF alpha.e > 0 /\ s * alpha.n > 0 THEN 255
  ELSE IF alpha.e > 0 /\ s * alpha.n < 0 THEN 0
  ELSE Min(255, Max(0, Trunc(s * alpha.n + beta * alpha.d, alpha.d)))

\* C18: brightness/contrast: for every source pixel s and every alpha and
\* beta the destination pixel is clamp(trunc(alpha * s + beta), 0, 255):
\* below 0 becomes 0, above 255 becomes 255, nothing wraps modulo 256.
C18_BrightnessContrastClamp ==
  [][(last'.op = "process" /\ last'.this # last'.other /\ last'.filter.kind = "bc")
       => \A y \in 0..(img[last'.this].m_height - 1), x \in 0..(img[last'.this].m_width - 1) :
            PixelOf(img', heap', last'.other, y, x)
              = Clamped(PixelOf(img, heap, last'.this, y, x),
                        last'.filter.alpha, last'.filter.beta)]_vars
\* The same for the values of alpha whose products stay in the range of int.
C18_ClampInRange ==
  [][(/\ last'.op = "process" /\ last'.this # last'.other
      /\ last'.filter.kind = "bc" /\ last'.filter.alpha.e = 0)
       => \A y \in 0..(img[last'.this].m_height - 1), x \in 0..(img[last'.this].m_width - 1) :
            PixelOf(img', heap', last'.other, y, x)
              = Clamped(PixelOf(img, heap, last'.this, y, x),
                        last'.filter.alpha, last'.filter.beta)]_vars

\* C19: in every state reached through construction (default, or with any
\* dimensions, 0 included), copy, assignment, getROI and release, an image
\* holds a buffer if and only if its width and its height are both positive.
C19_BufferIffPositive ==
  \A i \in Img :
    img[i].alive => ((img[i].m_data # NULL) <=> (img[i].m_width > 0 /\ img[i].m_height > 0))

\* The state release leaves: no dimensions, no buffer.
Released(im, i) == im[i].m_data = NULL /\ im[i].m_width = 0 /\ im[i].m_height = 0

\* C20: after release() the image has width 0, height 0, no buffer and
\* isEmpty() holds; release() on an image in that state (released before, or
\* default-constructed) frees nothing and changes no image and no block.
C20_ReleaseIdempotent ==
  [][\A i \in Img :
       (last'.op = "release" /\ last'.this = i)
       => /\ bad' = {}
          /\ Released(img', i) /\ isEmpty(img', i)
          /\ Released(img, i) => (img' = img /\ heap' = heap /\ last'.freed = <<>>)]_vars
\* release() has returned on an image that held no buffer: nothing was freed,
\* while the other image still holds its buffer.
C20_Witness ==
  /\ last.op = "release" /\ last.freed = <<>> /\ Released(img, last.this)
  /\ \E j \in Img : j # last.this /\ img[j].alive /\ img[j].m_data # NULL

\* The rectangle of corners tl and br extends beyond image i on some side.
RectBeyond(im, i, tl, br) ==
  \/ tl[1] < 0 \/ tl[2] < 0
  \/ br[1] > im[i].m_width \/ br[2] > im[i].m_height
  \/ br[1] < tl[1] \/ br[2] < tl[2]

\* C21: getROI(dst, rect) returns false and leaves dst as it was whenever rect
\* extends beyond the source on any side, a top-left corner with a negative
\* coordinate and a bottom-right corner left of or above the top-left included.
C21_ROIRectRejected ==
  [][(/\ last'.op = "getROI(rect)"
      /\ RectBeyond(img, last'.this, last'.p1, last'.p2))
       => /\ last'.ret = "false"
          /\ img'[last'.other] = img[last'.other]
          /\ Pixels(img', heap', last'.other) = Pixels(img, heap, last'.other)]_vars

\* The point pt lies in image i.
InImage(im, i, pt) == pt[1] \in 0..(im[i].m_width - 1) /\ pt[2] \in 0..(im[i].m_height - 1)

\* C22: for every pair of endpoints drawLine terminates, the first point it
\* visits is p1 and the last is p2, and each endpoint that lies in the image is
\* set to value.
C22_LineEndpoints ==
  [][\A i \in Img :
       (last'.op = "drawLine" /\ last'.this = i)
       => /\ bad' = {}
          /\ Len(last'.visits) >= 1
          /\ last'.visits[1] = last'.p1
          /\ last'.visits[Len(last'.visits)] = last'.p2
          /\ \A pt \in {last'.p1, last'.p2} :
               InImage(img, i, pt) => PixelOf(img', heap', i, pt[2], pt[1]) = last'.path]_vars
\* A steep line up and to the left has been drawn between two points of the
\* image: three points were visited and both endpoints hold the value.
C22_Witness ==
  /\ last.op = "drawLine" /\ last.p1 = <<1, 2>> /\ last.p2 = <<0, 0>>
  /\ InImage(img, last.this, last.p1)
  /\ Len(last.visits) = 3
  /\ PixelOf(img, heap, last.this, 2, 1) = last.path
  /\ PixelOf(img, heap, last.this, 0, 0) = last.path

\* C23: drawCircle with radius 0 and the center in the image sets the pixel in
\* column center.x of row center.y to value and changes no other pixel,
\* whatever the center.
C23_CircleRadiusZero ==
  [][\A i \in Img :
       (/\ last'.op = "drawCircle" /\ last'.this = i /\ last'.c = 0
        /\ InImage(img, i, last'.p1))
       => /\ bad' = {}
          /\ img'[i] = img[i]
          /\ \A y \in 0..(img[i].m_height - 1), x \in 0..(img[i].m_width - 1) :
               PixelOf(img', heap', i, y, x) =
                 IF <<x, y>> = last'.p1 THEN last'.path ELSE PixelOf(img, heap, i, y, x)]_vars

\* The points on the four edges of the rectangle of corners tl and br.
EdgePoints(tl, br) ==
  {<<x, y>> : x \in Min(tl[1], br[1])..Max(tl[1], br[1]), y \in {tl[2], br[2]}}
    \cup {<<x, y>> : x \in {tl[1], br[1]}, y \in Min(tl[2], br[2])..Max(tl[2], br[2])}

\* C24: drawRectangle sets every pixel of the image on the four edges between
\* the corners to value and leaves every other pixel, those strictly inside
\* the rectangle in particular, as it was: the effect of the four drawLine
\* calls.  The overload that takes a Rectangle does the same.
C24_RectangleEdges ==
  [][\A i \in Img :
       (last'.op \in {"drawRectangle", "drawRectangle(rect)"} /\ last'.this = i)
       => /\ bad' = {}
          /\ img'[i] = img[i]
          /\ \A y \in 0..(img[i].m_height - 1), x \in 0..(img[i].m_width - 1) :
               PixelOf(img', heap', i, y, x) =
                 IF <<x, y>> \in EdgePoints(last'.p1, last'.p2) THEN last'.path
                 ELSE PixelOf(img, heap, i, y, x)
          /\ \E m \in {drawLine(Start, i, last'.p1[1], last'.p1[2], last'.p2[1], last'.p1[2],
                                last'.path)} :
             \E m1 \in {drawLine(m, i, last'.p2[1], last'.p1[2], last'.p2[1], last'.p2[2],
                                 last'.path)} :
             \E m2 \in {drawLine(m1, i, last'.p2[1], last'.p2[2], last'.p1[1], last'.p2[2],
                                 last'.path)} :
             \E m3 \in {drawLine(m2, i, last'.p1[1], last'.p2[2], last'.p1[1], last'.p1[2],
                                 last'.path)} :
               img' = m3.img /\ heap' = m3.heap]_vars
\* A rectangle with an interior has been drawn through the Rectangle overload
\* on an image that holds it: a corner holds the value, the pixel inside
\* does not.
C24_Witness ==
  /\ last.op = "drawRectangle(rect)" /\ last.p1 = <<0, 0>> /\ last.p2 = <<2, 2>>
  /\ InImage(img, last.this, last.p2)
  /\ PixelOf(img, heap, last.this, 2, 2) = last.path
  /\ PixelOf(img, heap, last.this, 1, 1) # last.path

\* The sum of f over the finite set S.
RECURSIVE SumOver(_, _)
SumOver(f, S) ==
  IF S = {} THEN 0
  ELSE LET t == CHOOSE t \in S : TRUE IN f[t] + SumOver(f, S \ {t})

\* The taps <<kx, ky>> of a kw x kh kernel at pixel (x, y) whose sample
\* (x + kx - kw/2, y + ky - kh/2) lies inside image i.
TapsInside(im, i, kw, kh, x, y) ==
  {t \in (0..(kw - 1)) \X (0..(kh - 1)) :
     InImage(im, i, <<x + t[1] - (kw \div 2), y + t[2] - (kh \div 2)>>)}

\* C25: for every destination pixel (x, y) and every kernel of width kw and
\* height kh, odd or even, the sum is that of kernel[ky][kx] times the sample
\* at (x + kx - kw/2, y + ky - kh/2) over exactly the taps whose sample lies
\* inside src, and the destination pixel is clamp(trunc(scale(sum)), 0, 255).
C25_ConvolutionBoundary ==
  [][\A src, dst \in Img :
       (/\ last'.op = "process" /\ last'.this = src /\ last'.other = dst /\ src # dst
        /\ last'.filter.kind = "conv")
       => LET f == last'.filter
          IN  \A y \in 0..(img[src].m_height - 1), x \in 0..(img[src].m_width - 1) :
                LET taps == TapsInside(img, src, f.kw, f.kh, x, y)
                    term == [t \in taps |->
                               f.kernel[t[2] + 1][t[1] + 1]
                                 * PixelOf(img, heap, src, y + t[2] - (f.kh \div 2),
                                           x + t[1] - (f.kw \div 2))]
                IN  PixelOf(img', heap', dst, y, x)
                      = Min(255, Max(0, Trunc(SumOver(term, taps), f.sd)))]_vars
\* A 3 x 3 image has been convolved with a 2 x 2 kernel and a halving scaling
\* function into another image; the pixel at (0, 0) has one tap inside.
C25_Witness ==
  /\ last.op = "process" /\ last.this # last.other
  /\ last.filter.kind = "conv" /\ last.filter.kw = 2 /\ last.filter.kh = 2 /\ last.filter.sd = 2
  /\ img[last.this].m_width = FiltW /\ img[last.this].m_height = FiltH
  /\ Cardinality(TapsInside(img, last.this, 2, 2, 0, 0)) = 1
  /\ PixelOf(img, heap, last.other, 0, 0)
       = Min(255, Max(0, Trunc(0 - PixelOf(img, heap, last.this, 0, 0), 2)))

\* The corners the intersection and the bounding rectangle are made of.
Lefts(a, b) == {a.topLeft[1], b.topLeft[1]}
Tops(a, b) == {a.topLeft[2], b.topLeft[2]}
Rights(a, b) == {a.bottomRight[1], b.bottomRight[1]}
Bottoms(a, b) == {a.bottomRight[2], b.bottomRight[2]}
Least(S) == CHOOSE n \in S : \A k \in S : n <= k
Greatest(S) == CHOOSE n \in S : \A k \in S : n >= k

\* C26: for rectangles A and B with topLeft <= bottomRight, A & B is the
\* rectangle with both corners at the origin when A and B share no area, and
\* otherwise the rectangle from (max of lefts, max of tops) to (min of rights,
\* min of bottoms); A & B equals B & A.
C26_Intersection ==
  [][last'.op = "rect&"
       => LET a == last'.ra
              b == last'.rb
              x1 == Greatest(Lefts(a, b))
              y1 == Greatest(Tops(a, b))
              x2 == Least(Rights(a, b))
              y2 == Least(Bottoms(a, b))
          IN  /\ last'.rr = IF x2 <= x1 \/ y2 <= y1 THEN Rect(<<0, 0>>, <<0, 0>>)
                            ELSE Rect(<<x1, y1>>, <<x2, y2>>)
              /\ last'.rr = rectAnd(b, a)]_vars

\* C27: for rectangles A and B with topLeft <= bottomRight, A | B is the
\* rectangle from (min of lefts, min of tops) to (max of rights, max of
\* bottoms), which contains both.
C27_Union ==
  [][last'.op = "rect|"
       => LET a == last'.ra
              b == last'.rb
          IN  last'.rr = Rect(<<Least(Lefts(a, b)), Least(Tops(a, b))>>,
                              <<Greatest(Rights(a, b)), Greatest(Bottoms(a, b))>>)]_vars
\* The same two statements for rectangles without a negative coordinate.
RectResultsNonNegative ==
  [][(/\ last'.op \in {"rect&", "rect|"}
      /\ \A r \in {last'.ra, last'.rb} : r.topLeft[1] >= 0 /\ r.topLeft[2] >= 0)
       => LET a == last'.ra
              b == last'.rb
              x1 == Greatest(Lefts(a, b))
              y1 == Greatest(Tops(a, b))
              x2 == Least(Rights(a, b))
              y2 == Least(Bottoms(a, b))
          IN  IF last'.op = "rect|"
              THEN last'.rr = Rect(<<Least(Lefts(a, b)), Least(Tops(a, b))>>,
                                   <<Greatest(Rights(a, b)), Greatest(Bottoms(a, b))>>)
              ELSE last'.rr = IF x2 <= x1 \/ y2 <= y1 THEN Rect(<<0, 0>>, <<0, 0>>)
                              ELSE Rect(<<x1, y1>>, <<x2, y2>>)]_vars

\* The held image has the same dimensions and pixels in both states.
HeldSame(im, hp, im1, hp1) ==
  /\ im1[Held].m_width = im[Held].m_width
  /\ im1[Held].m_height = im[Held].m_height
  /\ Pixels(im1, hp1, Held) = Pixels(im, hp, Held)

\* C28: a filter or drawing choice (3, 4, 5, 6) invokes a core operation and a
\* save only if an earlier choice 1 loaded an image; before the first
\* successful load these choices change no image, no file and no setting, and
\* once an image is loaded no later choice, a failed load in particular,
\* unsets imageLoaded.
C28_LoadBeforeOperations ==
  [][last'.op = "menu"
       => /\ (last'.c \in 3..6 /\ last'.ops # <<>>) => ui.okLoads > 0
          /\ (last'.c \in 3..6 /\ ui.okLoads = 0)
               => /\ last'.ops = <<>>
                  /\ img' = img /\ heap' = heap /\ fs' = fs
                  /\ ui'.imageLoaded = ui.imageLoaded /\ ui'.outputPath = ui.outputPath
          /\ ui.okLoads > 0 => ui'.imageLoaded]_vars
\* After a successful load, img.load has failed on a file that is no binary
\* PGM: imageLoaded is still set.
C28_Witness ==
  /\ last.op = "menu" /\ last.c = 1 /\ last.ops = <<"load">> /\ last.ret = "false"
  /\ ui.okLoads > 0 /\ ui.imageLoaded

\* C29: the choices 3, 4 and 5 leave the held Image as it was; the held Image
\* changes only in a choice 1 whose load succeeds and in a choice 6.
C29_HeldImageFrame ==
  [][(last'.op = "menu" /\ last'.c # 0)
       => /\ last'.c \in 3..5 => (img'[Held] = img[Held] /\ HeldSame(img, heap, img', heap'))
          /\ ~HeldSame(img, heap, img', heap')
               => (last'.c = 1 /\ last'.ret = "true") \/ last'.c = 6]_vars
\* A filter has run and saved its result while the held image carries a pixel
\* of the value drawn earlier.
C29_Witness ==
  /\ last.op = "menu" /\ last.c \in 3..5 /\ last.ops = <<"process", "save">>
  /\ img[Held].m_width = MaxW /\ img[Held].m_height = MaxH
  /\ \E v \in DrawVals : PixelOf(img, heap, Held, 0, 0) = v
  /\ fs[OutputFile(ui.outputPath)] # NoFile

\* C30: with an image loaded, an invalid kernel choice runs no convolution
\* and saves no file, and an invalid shape choice draws nothing and leaves the
\* held Image as it was.
C30_InvalidSubChoice ==
  [][(last'.op = "menu" /\ ui.imageLoaded)
       => /\ (last'.c = 5 /\ last'.sub \notin 1..5)
               => (last'.ops = <<>> /\ fs' = fs /\ img' = img /\ heap' = heap)
          /\ (last'.c = 6 /\ last'.sub \notin 1..3)
               => /\ last'.writes = {}
                  /\ \A n \in 1..Len(last'.ops) : last'.ops[n] # "draw"
                  /\ img'[Held] = img[Held] /\ HeldSame(img, heap, img', heap')]_vars
\* With an image loaded the user has entered the kernel choice 6: nothing
\* ran, and no file was written at the output path.
C30_Witness ==
  /\ last.op = "menu" /\ last.c = 5 /\ last.sub = 6 /\ last.ops = <<>>
  /\ ui.imageLoaded /\ img[Held].m_data # NULL
  /\ fs[OutputFile(ui.outputPath)] = NoFile
====
